---- MODULE Spec2Model ----
(***************************************************************************)
(* Role / Environment / Memory / Message engine of MetaGPT.                *)
(*                                                                         *)
(* Role (src/metagpt/roles/role.py) and Message (src/metagpt/schema.py)    *)
(* are translated from the source.  Memory and Environment are not part of *)
(* the source tree; their operations are modelled from the specification.  *)
(***************************************************************************)
EXTENDS Integers, Sequences, FiniteSets, TLC

\* ------------------------------------------------------------------ bounds
\* Number of Message objects ever constructed (each gets a fresh id).
MaxMsgs == 3
\* Largest argument of Environment.run(k).
MaxRounds == 2
\* Longest decision-procedure answer, in characters.
MaxRespLen == 1
\* Longest line of operator input, in pieces (see ReviewWords).
MaxWords == 2
\* Longest code of a model response, in pieces (see CodeTokens).
MaxCodeLen == 4

\* --------------------------------------------------------------- constants
MESSAGE_ROUTE_TO_ALL == "<all>"
UserRequirement == "UserRequirement"

\* The role instances of the session.  A is a single-action role, B a role
\* with three actions, C a bare Role() whose _init_actions/_watch were never
\* called (as in test_get_roles).  B and C carry the same profile.  B also
\* watches one of its own actions (_watch accepts any action types).
RoleIds == {"A", "B", "C"}

RoleName(r) == CASE r = "A" -> "Alice" [] r = "B" -> "Bob" [] OTHER -> "Carol"

RoleProfile(r) == CASE r = "A" -> "ProductManager" [] OTHER -> "Architect"

\* self._actions after construction: the runtime types of the Action objects.
RoleActions(r) ==
    CASE r = "A" -> <<"ActA">>
      [] r = "B" -> <<"ActB0", "ActB1", "ActB2">>
      [] OTHER   -> <<>>

\* self._rc.watch after construction.
RoleWatch(r) ==
    CASE r = "A" -> {UserRequirement}
      [] r = "B" -> {UserRequirement, "ActA", "ActB2"}
      [] OTHER   -> {}

\* cause_by values an external publisher passes to Message(); "" is "absent"
\* (test_publish_and_process_message publishes a user requirement).
ExtCauses == {""}

\* Characters of a decision-procedure answer.  "sup2" stands for a character
\* such as U+00B2 for which str.isdigit() is true and int() raises; "x" for
\* any character that is not a digit.
DecimalChars == {"0", "1", "2", "7"}
AnswerChars == DecimalChars \cup {"sup2", "x"}

RECURSIVE SeqsUpTo(_, _)
SeqsUpTo(S, n) ==
    IF n = 0 THEN {<<>>}
    ELSE LET shorter == SeqsUpTo(S, n - 1)
         IN  shorter \cup {Append(s, c) : s \in {t \in shorter : Len(t) = n - 1}, c \in S}

Answers == SeqsUpTo(AnswerChars, MaxRespLen)

Range(s) == {s[i] : i \in 1..Len(s)}

\* ------------------------------------------------------------------- state
VARIABLES
    envMemory,   \* Environment.memory: the stored Message sequence
    envRoles,    \* Environment.roles: ordered mapping profile -> role
    envRun,      \* Environment.run(k) in progress: rounds left, position
    rcEnv,       \* rcEnv[r]: Role._rc.env is set
    rcMemory,    \* rcMemory[r]: Role._rc.memory storage
    rcState,     \* rcState[r]: Role._rc.state
    rcTodo,      \* rcTodo[r]: Role._rc.todo (<<>> is None)
    rcNews,      \* rcNews[r]: Role._rc.news
    pc,          \* pc[r]: position of role r inside run()
    local,       \* local[r]: locals of the run() in progress
    ret,         \* what a run() call returned or raised in the last step
    nextId,      \* number of Message objects constructed so far + 1
    gate,        \* AskReview.run: position, prompt, line read, result
    objects,     \* objects[h]: the Message the program variable h holds
    wire,        \* the string the last Message.dump returned, or received
    mq,          \* a MessageQueue, the dump() in progress, the last result
    mt           \* MakeTools.run: position, counters, context, files

roleVars == <<envMemory, envRoles, envRun, rcEnv, rcMemory, rcState, rcTodo,
              rcNews, pc, local, ret>>

libVars == <<gate, objects, wire, mq, mt>>

vars == <<envMemory, envRoles, envRun, rcEnv, rcMemory, rcState, rcTodo,
          rcNews, pc, local, ret, nextId, gate, objects, wire, mq, mt>>

\* ----------------------------------------------------------------- Message
\* Message.check_id: keep a supplied id, else generate a fresh one.
check_id(id, fresh) == IF id # 0 THEN id ELSE fresh

\* Message.check_cause_by: default to UserRequirement.
check_cause_by(cause_by) == IF cause_by # "" THEN cause_by ELSE UserRequirement

\* Message.check_sent_from
check_sent_from(sent_from) == IF sent_from # "" THEN sent_from ELSE ""

\* Message.check_send_to: default to the broadcast wildcard.
check_send_to(send_to) == IF send_to # {} THEN send_to ELSE {MESSAGE_ROUTE_TO_ALL}

\* Message(content, instruct_content=..., role=..., cause_by=...) with the
\* field validators applied; `fresh` is the value uuid4 would produce.
Message(fresh, content, instruct_content, role, cause_by) ==
    [id               |-> check_id(0, fresh),
     content          |-> content,
     instruct_content |-> instruct_content,
     role             |-> role,
     cause_by         |-> check_cause_by(cause_by),
     sent_from        |-> check_sent_from(""),
     send_to          |-> check_send_to({})]

\* ------------------------------------------------------------------ Memory
\* Memory.add: no-op when an identical message is stored, else append.
MemoryAdd(storage, m) == IF m \in Range(storage) THEN storage ELSE Append(storage, m)

\* Memory.get: the full ordered content.
MemoryGet(storage) == storage

\* Memory.get_by_actions: ordered subsequence with cause_by in kinds.
MemoryGetByActions(storage, kinds) ==
    SelectSeq(storage, LAMBDA m : m.cause_by \in kinds)

\* Memory.remember: the observed messages not already stored.
MemoryRemember(storage, observed) ==
    SelectSeq(observed, LAMBDA m : m \notin Range(storage))

\* ------------------------------------------------------------- Environment
\* Environment.publish_message: append the message to the global memory.
EnvPublishMessage(storage, m) == MemoryAdd(storage, m)

\* Position of profile p in the ordered mapping, 0 when absent.
ProfileIndex(roles, p) ==
    IF \E i \in 1..Len(roles) : roles[i].profile = p
    THEN CHOOSE i \in 1..Len(roles) : roles[i].profile = p
    ELSE 0

\* Environment.add_role: roles[role.profile] = role (last write wins).
EnvAddRole(roles, r) ==
    LET i == ProfileIndex(roles, RoleProfile(r))
        e == [profile |-> RoleProfile(r), role |-> r]
    IN  IF i = 0 THEN Append(roles, e) ELSE [roles EXCEPT ![i] = e]

\* Environment.get_role: the role registered under profile p (<<>> is None).
EnvGetRole(roles, p) ==
    LET i == ProfileIndex(roles, p) IN IF i = 0 THEN <<>> ELSE <<roles[i].role>>

\* --------------------------------------------------------------- Role._think
\* str.isdigit(): non-empty and every character is a digit character.
IsDigit(s) == Len(s) > 0 /\ \A i \in 1..Len(s) : s[i] \in DecimalChars \cup {"sup2"}

\* int(s) raises ValueError unless s is a non-empty run of decimal digits.
IntRaises(s) == Len(s) = 0 \/ \E i \in 1..Len(s) : s[i] \notin DecimalChars

DigitValue(c) == CASE c = "0" -> 0 [] c = "1" -> 1 [] c = "2" -> 2 [] c = "7" -> 7 [] OTHER -> 0

\* int(s) for a run of decimal digits.
RECURSIVE IntOf(_)
IntOf(s) ==
    IF Len(s) = 0 THEN 0
    ELSE 10 * IntOf(SubSeq(s, 1, Len(s) - 1)) + DigitValue(s[Len(s)])

\* Variant of SetState: the state is assigned and the todo is taken from the
\* head of the action list.
SetStateFirstAction(actions, todo, state) ==
    IF state + 1 \in 1..Len(actions)
    THEN [raised |-> "", state |-> state, todo |-> <<actions[1]>>]
    ELSE [raised |-> "IndexError", state |-> state, todo |-> todo]

\* Role._set_state: assign state, then todo = _actions[state] (IndexError
\* when the index is not in the list; state is already assigned then).
SetState(actions, todo, state) ==
    IF state + 1 \in 1..Len(actions)
    THEN [raised |-> "", state |-> state, todo |-> <<actions[state + 1]>>]
    ELSE [raised |-> "IndexError", state |-> state, todo |-> todo]

\* Role._think after the decision procedure answered next_state:
\*   if not next_state.isdigit() or int(next_state) not in range(n): "0"
\*   self._set_state(int(next_state))
\* int() raising inside the condition leaves state and todo untouched.
ThinkParse(actions, state, todo, next_state) ==
    IF ~IsDigit(next_state)
    THEN SetState(actions, todo, 0)
    ELSE IF IntRaises(next_state)
    THEN [raised |-> "ValueError", state |-> state, todo |-> todo]
    ELSE IF IntOf(next_state) \notin 0..(Len(actions) - 1)
    THEN SetState(actions, todo, 0)
    ELSE SetState(actions, todo, IntOf(next_state))

\* Variant of ThinkAsks: the single-action shortcut is missing.
ThinkAsksAlways(actions) == TRUE

\* Role._think asks the decision procedure unless there is exactly one action.
ThinkAsks(actions) == Len(actions) # 1

\* ----------------------------------------------------------------- Role.recv
\* Variant of Recv: a new message is put in front of the stored ones.
RecvInFront(storage, m) ==
    IF m \in Range(MemoryGet(storage)) THEN storage ELSE <<m>> \o storage

\* Variant of Recv: the message is appended without the membership test.
RecvAppends(storage, m) == Append(storage, m)

\* Role.recv: add the message to the private memory unless it is there.
Recv(storage, m) == IF m \in Range(MemoryGet(storage)) THEN storage ELSE MemoryAdd(storage, m)

RECURSIVE RecvAll(_, _)
RecvAll(storage, msgs) ==
    IF Len(msgs) = 0 THEN storage
    ELSE RecvAll(Recv(storage, Head(msgs)), Tail(msgs))

\* Variant of ImportantMemory: the whole history is handed to the Action.
ImportantMemoryAll(storage, watch) == MemoryGet(storage)

\* Variant of ImportantMemory: the context is read from the environment's
\* memory instead of the role's own.
ImportantMemoryOfEnv(storage, watch) == MemoryGetByActions(envMemory, watch)

\* RoleContext.important_memory
ImportantMemory(storage, watch) == MemoryGetByActions(storage, watch)

\* Variant of Observe: the watched messages are the news, seen before or not.
ObserveNoDedupe(storage, watch, env) ==
    LET env_msgs == MemoryGet(env)
        observed == MemoryGetByActions(env, watch)
    IN  [news |-> observed, memory |-> RecvAll(storage, env_msgs), count |-> Len(observed)]

\* Variant of Observe: the private memory keeps the news only.
ObserveKeepsNewsOnly(storage, watch, env) ==
    LET observed == MemoryGetByActions(env, watch)
        news     == MemoryRemember(storage, observed)
    IN  [news |-> news, memory |-> news, count |-> Len(news)]

\* Variant of Observe: only the watched messages are received.
ObserveWatchedOnly(storage, watch, env) ==
    LET observed == MemoryGetByActions(env, watch)
        news     == MemoryRemember(storage, observed)
    IN  [news |-> news, memory |-> RecvAll(storage, observed), count |-> Len(news)]

\* Variant of Observe: the messages are received before the news is computed.
ObserveRecvFirst(storage, watch, env) ==
    LET env_msgs == MemoryGet(env)
        received == RecvAll(storage, env_msgs)
        news     == MemoryRemember(received, MemoryGetByActions(env, watch))
    IN  [news |-> news, memory |-> received, count |-> Len(news)]

\* Role._observe with an environment: news from the watched environment
\* messages, then every environment message is received.
Observe(storage, watch, env) ==
    LET env_msgs == MemoryGet(env)
        observed == MemoryGetByActions(env, watch)
        news     == MemoryRemember(storage, observed)
    IN  [news |-> news, memory |-> RecvAll(storage, env_msgs), count |-> Len(news)]

\* ---------------------------------------------------------------- AskReview
\* A line of operator input is a sequence of characters.  The lines
\* considered are the concatenations of at most MaxWords of these pieces.
ReviewWords ==
    { <<"e", "x", "i", "t">>, <<"E", "x", "i", "t">>, <<"E", "X", "I", "T">>,
      <<"c", "o", "n", "f", "i", "r", "m">>, <<"C", "o", "n", "f", "i", "r", "m">>,
      <<"c", "o", "n">>, <<"f", "i", "r", "m">>,
      <<"c", "o", "n", "t", "i", "n", "u", "e">>,
      <<"c">>, <<"y">>, <<"y", "e", "s">>, <<"Y", "E", "S">>,
      <<"c", "h", "a", "n", "g", "e">>, <<" ">> }

RECURSIVE Flatten(_)
Flatten(ws) == IF ws = <<>> THEN <<>> ELSE Head(ws) \o Flatten(Tail(ws))

Inputs == {Flatten(ws) : ws \in SeqsUpTo(ReviewWords, MaxWords)}

\* str.lower() on the characters that occur
LowerChar(c) ==
    CASE c = "C" -> "c"
      [] c = "E" -> "e"
      [] c = "I" -> "i"
      [] c = "S" -> "s"
      [] c = "T" -> "t"
      [] c = "X" -> "x"
      [] c = "Y" -> "y"
      [] OTHER -> c

Lower(s) == IF s = <<>> THEN <<>> ELSE [i \in 1..Len(s) |-> LowerChar(s[i])]

\* Python `sub in s` on strings
Contains(sub, s) ==
    \E i \in 0..(Len(s) - Len(sub)) : SubSeq(s, i + 1, i + Len(sub)) = sub

\* class ReviewConst
TASK_REVIEW_TRIGGER == "task"
CODE_REVIEW_TRIGGER == "code"
CONTINUE_WORD ==
    << <<"c", "o", "n", "f", "i", "r", "m">>,
       <<"c", "o", "n", "t", "i", "n", "u", "e">>,
       <<"c">>, <<"y", "e", "s">>, <<"y">> >>
CHANGE_WORD == << <<"c", "h", "a", "n", "g", "e">> >>
EXIT_WORD == << <<"e", "x", "i", "t">> >>

\* the trigger argument a caller passes to AskReview.run
Triggers == {TASK_REVIEW_TRIGGER, CODE_REVIEW_TRIGGER}

\* AskReview.run: the review instruction put into the prompt
ReviewInstruction(trigger) ==
    IF trigger = TASK_REVIEW_TRIGGER THEN "TASK_REVIEW_INSTRUCTION"
    ELSE "CODE_REVIEW_INSTRUCTION"

\* Variant of ExitRequested: the exit test looks for the change word.
ExitOnChangeWord(rsp) == Lower(rsp) \in Range(CHANGE_WORD)

\* AskReview.run: `rsp.lower() in ReviewConst.EXIT_WORD`
ExitRequested(rsp) == Lower(rsp) \in Range(EXIT_WORD)

\* Variant of Confirmed: the answer is compared as typed.
ConfirmedAsTyped(rsp) ==
    rsp \in Range(CONTINUE_WORD) \/ Contains(CONTINUE_WORD[1], rsp)

\* AskReview.run: `rsp.lower() in CONTINUE_WORD or CONTINUE_WORD[0] in rsp.lower()`
Confirmed(rsp) ==
    Lower(rsp) \in Range(CONTINUE_WORD) \/ Contains(CONTINUE_WORD[1], Lower(rsp))

\* AskReview.run has not been called (or its result has been taken).
NoGate == [pc |-> "idle", prompt |-> "", rsp |-> <<>>, result |-> <<>>, reads |-> 0]

\* ------------------------------------------------------- Message objects
\* Python values passed to Message() and to attribute assignment:
\* None, a str, a class, a set or a list of str.
PyNone == [kind |-> "none", items |-> <<>>]
PyStr(s) == [kind |-> "str", items |-> <<s>>]
PyClass(name) == [kind |-> "class", items |-> <<name>>]
PySet(items) == [kind |-> "set", items |-> items]
PyList(items) == [kind |-> "list", items |-> items]

\* Python truth value
Truthy(v) ==
    CASE v.kind = "none" -> FALSE
      [] v.kind = "str" -> v.items[1] # ""
      [] v.kind = "class" -> TRUE
      [] OTHER -> v.items # <<>>

\* any_to_str: a str is itself, anything else is named by its class.
any_to_str(v) == IF v.kind = "none" THEN "NoneType" ELSE v.items[1]

\* any_to_str_set: the names of the elements of a collection, else the
\* singleton of the value's name.
any_to_str_set(v) ==
    IF v.kind \in {"set", "list"} THEN {v.items[i] : i \in 1..Len(v.items)}
    ELSE {any_to_str(v)}

\* Message(content, id=..., cause_by=..., sent_from=..., send_to=...): the
\* field validators run on what the caller passed; id 0 is "no id".
MessageOf(fresh, id, content, cause_by, sent_from, send_to) ==
    [id               |-> check_id(id, fresh),
     content          |-> content,
     instruct_content |-> "",
     role             |-> "user",
     cause_by         |-> check_cause_by(IF Truthy(cause_by) THEN any_to_str(cause_by) ELSE ""),
     sent_from        |-> check_sent_from(IF Truthy(sent_from) THEN any_to_str(sent_from) ELSE ""),
     send_to          |-> check_send_to(IF Truthy(send_to) THEN any_to_str_set(send_to) ELSE {})]

\* Message.__setattr__(key, val)
SetAttr(m, key, val) ==
    CASE key = "cause_by" -> [m EXCEPT !.cause_by = any_to_str(val)]
      [] key = "sent_from" -> [m EXCEPT !.sent_from = any_to_str(val)]
      [] key = "send_to" -> [m EXCEPT !.send_to = any_to_str_set(val)]
      [] OTHER -> [m EXCEPT ![key] = val]

\* The orders in which a set can be written as a JSON array.
Orderings(S) ==
    {q \in SeqsUpTo(S, Cardinality(S)) : Len(q) = Cardinality(S) /\ Range(q) = S}

\* A JSON text: an object with the fields of a Message (send_to an array),
\* or a text that json.loads rejects.
Json(id, content, role, cause_by, sent_from, send_to) ==
    [kind |-> "json", id |-> id, content |-> content, role |-> role,
     cause_by |-> cause_by, sent_from |-> sent_from, send_to |-> send_to]
NotJson == [kind |-> "text", id |-> 0, content |-> "", role |-> "",
            cause_by |-> "", sent_from |-> "", send_to |-> <<>>]
NoWire == [kind |-> "none", id |-> 0, content |-> "", role |-> "",
           cause_by |-> "", sent_from |-> "", send_to |-> <<>>]

\* Message.dump: model_dump_json(exclude_none=True); the set send_to is
\* written as an array in some order.
Dump(m) ==
    {Json(m.id, m.content, m.role, m.cause_by, m.sent_from, q) : q \in Orderings(m.send_to)}

\* Variant of Load: the id of the text is not put back.
LoadFreshId(val, fresh) ==
    IF val.kind # "json" THEN <<>>
    ELSE <<MessageOf(fresh, 0, val.content, PyStr(val.cause_by),
                     PyStr(val.sent_from), PyList(val.send_to))>>

\* Message.load(val): <<>> is None (the text is not JSON); else the Message
\* built from the text without its id, then given the id of the text.
Load(val, fresh) ==
    IF val.kind # "json" THEN <<>>
    ELSE LET msg == MessageOf(fresh, 0, val.content, PyStr(val.cause_by),
                              PyStr(val.sent_from), PyList(val.send_to))
         IN  <<IF val.id # 0 THEN SetAttr(msg, "id", val.id) ELSE msg>>

\* The program variables that hold Message objects; <<>> is unbound.
Handles == {"x", "y"}
NoObject == <<>>

\* What callers pass: an id (0: none), the routing values at construction,
\* and the values assigned to each attribute later.
SuppliedId == 9
IdInputs == {0, SuppliedId}
CauseByInputs == {PyNone, PyClass("ActA")}
SentFromInputs == {PyNone, PyStr("Alice")}
SendToInputs == {PyNone, PySet(<<>>), PyStr("A")}
AttrKeys == {"id", "cause_by", "sent_from", "send_to"}
AttrValues(key) ==
    CASE key = "id" -> IdInputs
      [] key = "cause_by" -> {PyClass("ActA")}
      [] key = "sent_from" -> {PyStr("Alice")}
      [] key = "send_to" -> {PyList(<<>>), PySet(<<"A">>)}

\* JSON texts that come from elsewhere: not JSON at all, or without an id.
ReceivedTexts == {NotJson, Json(0, "x", "user", UserRequirement, "", <<"A">>)}

\* ------------------------------------------------------------ MessageQueue
\* The Messages pushed: Message("x") as constructed, or with its send_to
\* emptied by a later assignment.
QueueMessages(fresh) ==
    {MessageOf(fresh, 0, "x", PyNone, PyNone, PyNone),
     SetAttr(MessageOf(fresh, 0, "x", PyNone, PyNone, PyNone), "send_to", PySet(<<>>))}

\* Variant of Pop: the newest item is taken.
PopNewest(q) ==
    IF q = <<>> THEN [item |-> <<>>, rest |-> q]
    ELSE [item |-> <<q[Len(q)]>>, rest |-> SubSeq(q, 1, Len(q) - 1)]

\* MessageQueue.pop on the items q of _queue: get_nowait takes the oldest
\* item; QueueEmpty gives None (<<>>).
Pop(q) ==
    IF q = <<>> THEN [item |-> <<>>, rest |-> q]
    ELSE [item |-> <<Head(q)>>, rest |-> Tail(q)]

\* MessageQueue.pop_all: pop until pop gives None.
RECURSIVE PopAll(_)
PopAll(q) ==
    LET r == Pop(q)
    IN  IF r.item = <<>> THEN [items |-> <<>>, rest |-> r.rest]
        ELSE LET t == PopAll(r.rest)
             IN  [items |-> r.item \o t.items, rest |-> t.rest]

\* A JSON text that is an array of strings (json.dumps(lst)), and a text
\* json.loads rejects.
JsonArray(items) == [kind |-> "array", items |-> items]
NotJsonArray == [kind |-> "text", items |-> <<>>]

\* MessageQueue.load(data): the Messages of the array, pushed in order; a
\* text that is not JSON gives an empty queue.
QueueLoad(data, fresh) ==
    IF data.kind # "array" THEN <<>>
    ELSE [i \in 1..Len(data.items) |-> Head(Load(data.items[i], fresh + i - 1))]

\* The result of the last MessageQueue call.
QueueRet(op, msgs, flag, text) == [op |-> op, msgs |-> msgs, flag |-> flag, text |-> text]
NoQueueRet == QueueRet("", <<>>, FALSE, NotJsonArray)

\* An empty MessageQueue() with no call made: queue is _queue; pc, msgs and
\* lst are the position and locals of the dump() in progress; loaded is the
\* queue MessageQueue.load returned; pushed and popped are the Messages
\* given to push and returned by pop and pop_all so far.
NoQueue ==
    [queue |-> <<>>, pc |-> "idle", msgs |-> <<>>, lst |-> <<>>, ret |-> NoQueueRet,
     loaded |-> <<>>, loads |-> 0, pushed |-> <<>>, popped |-> <<>>]

\* ---------------------------------------------------------------- MakeTools
\* The text of a tool_code["code"] is a sequence of pieces: the letters def,
\* a blank, the letter f and an opening parenthesis.  WordTokens are the
\* pieces made of word characters, NameStartTokens those a name can start
\* with.
CodeTokens == {"def", " ", "f", "("}
WordTokens == {"def", "f"}
NameStartTokens == {"def", "f"}
Codes == SeqsUpTo(CodeTokens, MaxCodeLen)

\* The index of the last piece of the longest run of pieces of S that starts
\* at index i of code (i - 1 if there is none).
RECURSIVE RunEnd(_, _, _)
RunEnd(code, i, S) ==
    IF i <= Len(code) /\ code[i] \in S THEN RunEnd(code, i + 1, S) ELSE i - 1

\* The pattern \bdef\s+([a-zA-Z_]\w*)\s*\( matches at index i of code.
DefMatchesAt(code, i) ==
    LET blanks == RunEnd(code, i + 1, {" "})
        name == RunEnd(code, blanks + 1, WordTokens)
        more == RunEnd(code, name + 1, {" "})
    IN  /\ code[i] = "def"
        /\ (i = 1 \/ code[i - 1] \notin WordTokens)
        /\ blanks >= i + 1
        /\ name >= blanks + 1
        /\ code[blanks + 1] \in NameStartTokens
        /\ more + 1 <= Len(code)
        /\ code[more + 1] = "("

\* MakeTools.parse_function_name: <<>> is None, else the name captured by
\* the leftmost match.
parse_function_name(code) ==
    IF \E i \in 1..Len(code) : DefMatchesAt(code, i)
    THEN LET i == CHOOSE k \in 1..Len(code) :
                     /\ DefMatchesAt(code, k)
                     /\ \A n \in 1..(k - 1) : ~DefMatchesAt(code, n)
             blanks == RunEnd(code, i + 1, {" "})
         IN  <<SubSeq(code, blanks + 1, RunEnd(code, blanks + 1, WordTokens))>>
    ELSE <<>>

\* The loop bound of MakeTools.run and the attempts of its retry decorator.
max_tries == 3
stop_after_attempt == 3

\* MakeTools() with no call of run made: context is self.context, files the
\* tool files written under self.workspace, requests the model requests
\* issued by the call.  func_name and tool_code are the locals of run;
\* tool_code is kept from the pass that leaves the loop (the code of a pass
\* the loop repeats after is replaced by the next answer before it is read).
NoTools ==
    [pc |-> "idle", attempt |-> 0, current_try |-> 0, requests |-> 0,
     context |-> <<>>, func_name |-> <<>>, tool_code |-> <<>>, files |-> {},
     error |-> ""]

\* -------------------------------------------------------------------- Init
NoLocal == [message |-> FALSE, requirement |-> <<>>, rsp |-> <<>>]

\* No run() call ended in the step.
NoRet == [role |-> "", status |-> "", value |-> <<>>]

\* run() of role r ended: status is "None", "Message" or the exception raised.
Returned(r, status, value) == [role |-> r, status |-> status, value |-> value]

NoRun == [active |-> FALSE, rounds |-> 0, idx |-> 0]

\* Environment() and the three roles right after construction.
Init ==
    /\ envMemory = <<>>
    /\ envRoles = <<>>
    /\ envRun = NoRun
    /\ rcEnv = [r \in RoleIds |-> FALSE]
    /\ rcMemory = [r \in RoleIds |-> <<>>]
    /\ rcState = [r \in RoleIds |-> 0]
    /\ rcTodo = [r \in RoleIds |-> <<>>]
    /\ rcNews = [r \in RoleIds |-> <<>>]
    /\ pc = [r \in RoleIds |-> "idle"]
    /\ local = [r \in RoleIds |-> NoLocal]
    /\ ret = NoRet
    /\ nextId = 1
    /\ gate = NoGate
    /\ objects = [h \in Handles |-> NoObject]
    /\ wire = NoWire
    /\ mq = NoQueue
    /\ mt = NoTools

\* No role is inside run() and no Environment.run is in progress.
Quiet == envRun.active = FALSE /\ \A r \in RoleIds : pc[r] = "idle"

\* An exception leaving run() also ends the Environment.run awaiting it.
Abort(run) == IF run.active THEN NoRun ELSE run

\* ------------------------------------------------------------ Role.run steps
\* Variant of ObservedNothing: the test never succeeds.
ObservedNothingNever(count) == count < 0

\* `elif not await self._observe()`: run() returns when nothing was observed.
ObservedNothing(count) == count = 0

\* run() without message (or with a falsy one): _observe, then return None
\* when it reports no news, else go on to _react.
RunObserve(r) ==
    /\ pc[r] = "idle"
    /\ LET o == Observe(rcMemory[r], RoleWatch(r), envMemory)
           count == IF rcEnv[r] THEN o.count ELSE 0
       IN  /\ rcNews' = IF rcEnv[r] THEN [rcNews EXCEPT ![r] = o.news] ELSE rcNews
           /\ rcMemory' = IF rcEnv[r] THEN [rcMemory EXCEPT ![r] = o.memory] ELSE rcMemory
           /\ IF ObservedNothing(count)
              THEN /\ pc' = pc
                   /\ ret' = Returned(r, "None", <<>>)
              ELSE /\ pc' = [pc EXCEPT ![r] = "think"]
                   /\ ret' = NoRet
    /\ local' = [local EXCEPT ![r] = NoLocal]
    /\ UNCHANGED <<envMemory, envRoles, rcEnv, rcState, rcTodo, nextId>>
    /\ UNCHANGED libVars

\* The shapes of the argument of run(message): a falsy value ("" or []), a
\* non-empty str, a Message, a non-empty list of str, a non-empty list of
\* Message.
MessageShapes == {"empty", "str", "Message", "list_str", "list_msg"}

\* The Message run() builds from a str argument or from a joined list of str.
RunInputMessage(fresh, shape) ==
    Message(fresh, IF shape = "list_str" THEN "x\nx" ELSE "x", "", "user", "")

\* Variant of RunMessage: an explicit message does not bypass _observe; the
\* environment's messages are received after it.
RunMessageObserving(r, shape, given) ==
    /\ pc[r] = "idle"
    /\ shape \in MessageShapes
    /\ IF shape = "empty"
       THEN RunObserve(r)
       ELSE /\ IF shape = "list_msg"
               THEN /\ ret' = Returned(r, "TypeError", <<>>)
                    /\ local' = [local EXCEPT ![r] = NoLocal]
                    /\ UNCHANGED <<rcMemory, pc, nextId>>
               ELSE /\ LET built == shape # "Message" \/ Head(given).id = nextId
                           m == IF shape = "Message" THEN Head(given)
                                ELSE RunInputMessage(nextId, shape)
                           folded == Recv(rcMemory[r], m)
                       IN  /\ built => nextId <= MaxMsgs
                           /\ rcMemory' = [rcMemory EXCEPT ![r] =
                                  IF rcEnv[r] THEN RecvAll(folded, envMemory) ELSE folded]
                           /\ nextId' = IF built THEN nextId + 1 ELSE nextId
                    /\ pc' = [pc EXCEPT ![r] = "think"]
                    /\ ret' = NoRet
                    /\ local' = [local EXCEPT ![r] = [NoLocal EXCEPT !.message = TRUE]]
            /\ UNCHANGED <<envMemory, envRoles, rcEnv, rcState, rcTodo, rcNews>>
    /\ UNCHANGED libVars

\* run(message): a falsy message takes the observe branch; a str is wrapped
\* into a Message and received; a Message is received; a list is joined with
\* "\n", wrapped and received, and joining a list of Message raises TypeError.
\* `given` is <<m>> for the Message shape, and m is newly built by the caller
\* when its id is nextId.
RunMessage(r, shape, given) ==
    /\ pc[r] = "idle"
    /\ shape \in MessageShapes
    /\ IF shape = "empty"
       THEN RunObserve(r)
       ELSE /\ IF shape = "list_msg"
               THEN /\ ret' = Returned(r, "TypeError", <<>>)
                    /\ local' = [local EXCEPT ![r] = NoLocal]
                    /\ UNCHANGED <<rcMemory, pc, nextId>>
               ELSE /\ LET built == shape # "Message" \/ Head(given).id = nextId
                           m == IF shape = "Message" THEN Head(given)
                                ELSE RunInputMessage(nextId, shape)
                       IN  /\ built => nextId <= MaxMsgs
                           /\ rcMemory' = [rcMemory EXCEPT ![r] = Recv(rcMemory[r], m)]
                           /\ nextId' = IF built THEN nextId + 1 ELSE nextId
                    /\ pc' = [pc EXCEPT ![r] = "think"]
                    /\ ret' = NoRet
                    /\ local' = [local EXCEPT ![r] = [NoLocal EXCEPT !.message = TRUE]]
            /\ UNCHANGED <<envMemory, envRoles, rcEnv, rcState, rcTodo, rcNews>>
    /\ UNCHANGED libVars

\* _think up to the decision procedure: a single action is selected at
\* once, otherwise the role suspends on self._llm.aask(prompt).
Think(r) ==
    /\ pc[r] = "think"
    /\ IF ThinkAsks(RoleActions(r))
       THEN /\ pc' = [pc EXCEPT ![r] = "think_wait"]
            /\ UNCHANGED <<rcState, rcTodo>>
       ELSE LET s == SetState(RoleActions(r), rcTodo[r], 0)
            IN  /\ rcState' = [rcState EXCEPT ![r] = s.state]
                /\ rcTodo' = [rcTodo EXCEPT ![r] = s.todo]
                /\ pc' = [pc EXCEPT ![r] = "act"]
    /\ ret' = NoRet
    /\ UNCHANGED <<envMemory, envRoles, envRun, rcEnv, rcMemory, rcNews, local, nextId>>
    /\ UNCHANGED libVars

\* The decision procedure answers; _think parses the answer and sets the state.
ThinkAnswer(r, next_state) ==
    /\ pc[r] = "think_wait"
    /\ LET t == ThinkParse(RoleActions(r), rcState[r], rcTodo[r], next_state)
       IN  /\ rcState' = [rcState EXCEPT ![r] = t.state]
           /\ rcTodo' = [rcTodo EXCEPT ![r] = t.todo]
           /\ IF t.raised = ""
              THEN /\ pc' = [pc EXCEPT ![r] = "act"]
                   /\ ret' = NoRet
                   /\ UNCHANGED <<local, envRun>>
              ELSE /\ pc' = [pc EXCEPT ![r] = "idle"]
                   /\ ret' = Returned(r, t.raised, <<>>)
                   /\ local' = [local EXCEPT ![r] = NoLocal]
                   /\ envRun' = Abort(envRun)
    /\ UNCHANGED <<envMemory, envRoles, rcEnv, rcMemory, rcNews, nextId>>
    /\ UNCHANGED libVars

\* Variant of Act: _act may start before _think has selected the state.
ActEarly(r) ==
    /\ pc[r] \in {"think", "act"}
    /\ local' = [local EXCEPT ![r].requirement = ImportantMemory(rcMemory[r], RoleWatch(r))]
    /\ pc' = [pc EXCEPT ![r] = "act_wait"]
    /\ ret' = NoRet
    /\ UNCHANGED <<envMemory, envRoles, envRun, rcEnv, rcMemory, rcState, rcTodo, rcNews, nextId>>
    /\ UNCHANGED libVars

\* _act up to the Action call: the context is the important memory, then
\* the role suspends on self._rc.todo.run(requirement).
Act(r) ==
    /\ pc[r] = "act"
    /\ local' = [local EXCEPT ![r].requirement = ImportantMemory(rcMemory[r], RoleWatch(r))]
    /\ pc' = [pc EXCEPT ![r] = "act_wait"]
    /\ ret' = NoRet
    /\ UNCHANGED <<envMemory, envRoles, envRun, rcEnv, rcMemory, rcState, rcTodo, rcNews, nextId>>
    /\ UNCHANGED libVars

\* The Message _act builds from the Action's response.
ActMessage(r, fresh, structured) ==
    Message(fresh, "out", IF structured THEN "ic" ELSE "", RoleProfile(r), Head(rcTodo[r]))

\* Variant of ActReturn: the Message is returned without being added to the
\* private memory.
ActReturnUnstored(r, structured) ==
    /\ pc[r] = "act_wait"
    /\ nextId <= MaxMsgs
    /\ local' = [local EXCEPT ![r].rsp = <<ActMessage(r, nextId, structured)>>]
    /\ nextId' = nextId + 1
    /\ pc' = [pc EXCEPT ![r] = "publish"]
    /\ ret' = NoRet
    /\ UNCHANGED <<envMemory, envRoles, envRun, rcEnv, rcMemory, rcState, rcTodo, rcNews>>
    /\ UNCHANGED libVars

\* The Action returns (a str or an ActionOutput); _act wraps the response
\* into a Message and adds it to the private memory.
ActReturn(r, structured) ==
    /\ pc[r] = "act_wait"
    /\ nextId <= MaxMsgs
    /\ LET msg == ActMessage(r, nextId, structured)
       IN  /\ rcMemory' = [rcMemory EXCEPT ![r] = MemoryAdd(rcMemory[r], msg)]
           /\ local' = [local EXCEPT ![r].rsp = <<msg>>]
    /\ nextId' = nextId + 1
    /\ pc' = [pc EXCEPT ![r] = "publish"]
    /\ ret' = NoRet
    /\ UNCHANGED <<envMemory, envRoles, envRun, rcEnv, rcState, rcTodo, rcNews>>
    /\ UNCHANGED libVars

\* Variant of ActRaise: the role catches the exception and runs the Action
\* again.
ActRaiseRetry(r) ==
    /\ pc[r] = "act_wait"
    /\ pc' = [pc EXCEPT ![r] = "act"]
    /\ ret' = NoRet
    /\ UNCHANGED <<envMemory, envRoles, envRun, rcEnv, rcMemory, rcState, rcTodo, rcNews,
                   local, nextId>>
    /\ UNCHANGED libVars

\* The Action raises: nothing in _act, _react or run catches it.
ActRaise(r) ==
    /\ pc[r] = "act_wait"
    /\ pc' = [pc EXCEPT ![r] = "idle"]
    /\ ret' = Returned(r, "ActionError", <<>>)
    /\ local' = [local EXCEPT ![r] = NoLocal]
    /\ envRun' = Abort(envRun)
    /\ UNCHANGED <<envMemory, envRoles, rcEnv, rcMemory, rcState, rcTodo, rcNews, nextId>>
    /\ UNCHANGED libVars

\* Variant of Publish: run() does not return after publishing; the role
\* reacts again.
PublishAndReact(r) ==
    /\ pc[r] = "publish"
    /\ envMemory' = IF rcEnv[r] THEN EnvPublishMessage(envMemory, Head(local[r].rsp)) ELSE envMemory
    /\ ret' = NoRet
    /\ local' = [local EXCEPT ![r] = NoLocal]
    /\ pc' = [pc EXCEPT ![r] = "think"]
    /\ UNCHANGED <<envRoles, envRun, rcEnv, rcMemory, rcState, rcTodo, rcNews, nextId>>
    /\ UNCHANGED libVars

\* Variant of Publish: the environment pushes the published Message into the
\* private memory of every role bound to it.
PublishPush(r) ==
    /\ pc[r] = "publish"
    /\ envMemory' = IF rcEnv[r] THEN EnvPublishMessage(envMemory, Head(local[r].rsp)) ELSE envMemory
    /\ rcMemory' = [q \in RoleIds |->
                      IF rcEnv[r] /\ rcEnv[q] THEN Recv(rcMemory[q], Head(local[r].rsp))
                      ELSE rcMemory[q]]
    /\ ret' = Returned(r, "Message", local[r].rsp)
    /\ local' = [local EXCEPT ![r] = NoLocal]
    /\ pc' = [pc EXCEPT ![r] = "idle"]
    /\ UNCHANGED <<envRoles, envRun, rcEnv, rcState, rcTodo, rcNews, nextId>>
    /\ UNCHANGED libVars

\* Variant of Publish: run() returns the response without publishing it.
PublishNothing(r) ==
    /\ pc[r] = "publish"
    /\ envMemory' = envMemory
    /\ ret' = Returned(r, "Message", local[r].rsp)
    /\ local' = [local EXCEPT ![r] = NoLocal]
    /\ pc' = [pc EXCEPT ![r] = "idle"]
    /\ UNCHANGED <<envRoles, envRun, rcEnv, rcMemory, rcState, rcTodo, rcNews, nextId>>
    /\ UNCHANGED libVars

\* _publish_message(rsp) and return rsp.
Publish(r) ==
    /\ pc[r] = "publish"
    /\ envMemory' = IF rcEnv[r] THEN EnvPublishMessage(envMemory, Head(local[r].rsp)) ELSE envMemory
    /\ ret' = Returned(r, "Message", local[r].rsp)
    /\ local' = [local EXCEPT ![r] = NoLocal]
    /\ pc' = [pc EXCEPT ![r] = "idle"]
    /\ UNCHANGED <<envRoles, envRun, rcEnv, rcMemory, rcState, rcTodo, rcNews, nextId>>
    /\ UNCHANGED libVars

\* ------------------------------------------------------------------ callers
\* Variant of SetEnv: the environment is not stored in the role.
SetEnvNothing(envs, r) == envs

\* Role.set_env: self._rc.env = env.
SetEnv(envs, r) == [envs EXCEPT ![r] = TRUE]

\* Environment.add_role(role): register under the profile and bind the env.
AddRole(r) ==
    /\ Quiet
    /\ ~rcEnv[r]
    /\ envRoles' = EnvAddRole(envRoles, r)
    /\ rcEnv' = SetEnv(rcEnv, r)
    /\ ret' = NoRet
    /\ UNCHANGED <<envMemory, envRun, rcMemory, rcState, rcTodo, rcNews, pc, local, nextId>>
    /\ UNCHANGED libVars

\* Environment.add_role(role) for a role that was added before: it is
\* registered under its profile again.
AddRoleAgain(r) ==
    /\ Quiet
    /\ rcEnv[r]
    /\ envRoles' = EnvAddRole(envRoles, r)
    /\ rcEnv' = SetEnv(rcEnv, r)
    /\ ret' = NoRet
    /\ UNCHANGED <<envMemory, envRun, rcMemory, rcState, rcTodo, rcNews, pc, local, nextId>>
    /\ UNCHANGED libVars

\* Environment.publish_message(Message(content, cause_by=...)) by a caller
\* outside the roles; it can run whenever no role is between two awaits.
ExtPublish(cause) ==
    /\ \A r \in RoleIds : pc[r] \in {"idle", "think_wait", "act_wait"}
    /\ nextId <= MaxMsgs
    /\ envMemory' = EnvPublishMessage(envMemory, Message(nextId, "x", "", "user", cause))
    /\ nextId' = nextId + 1
    /\ ret' = NoRet
    /\ UNCHANGED <<envRoles, envRun, rcEnv, rcMemory, rcState, rcTodo, rcNews, pc, local>>
    /\ UNCHANGED libVars

\* Environment.publish_message(m) by a caller outside the roles, for a
\* Message m it published before.
ExtRepublish(m) ==
    /\ \A r \in RoleIds : pc[r] \in {"idle", "think_wait", "act_wait"}
    /\ m \in Range(envMemory)
    /\ envMemory' = EnvPublishMessage(envMemory, m)
    /\ ret' = NoRet
    /\ UNCHANGED <<envRoles, envRun, rcEnv, rcMemory, rcState, rcTodo, rcNews, pc, local, nextId>>
    /\ UNCHANGED libVars

\* A caller awaits role.run() directly on a role that is in no environment
\* (roles of an environment are run by Environment.run).
DriverRun(r) ==
    /\ Quiet
    /\ ~rcEnv[r]
    /\ RunObserve(r)
    /\ UNCHANGED envRun

\* A caller awaits role.run(message) directly.
DriverRunMessage(r, shape, given) ==
    /\ Quiet
    /\ nextId <= MaxMsgs
    /\ RunMessage(r, shape, given)
    /\ UNCHANGED envRun

\* Environment.run(k) is called.
EnvRunStart(k) ==
    /\ Quiet
    /\ envRun' = [active |-> TRUE, rounds |-> k, idx |-> 1]
    /\ ret' = NoRet
    /\ UNCHANGED <<envMemory, envRoles, rcEnv, rcMemory, rcState, rcTodo, rcNews, pc, local, nextId>>
    /\ UNCHANGED libVars

\* Variant of EnvRunTurn: the next role is started without waiting for the
\* previous role's run() to return.
EnvRunTurnNoWait ==
    /\ envRun.active
    /\ envRun.idx <= Len(envRoles)
    /\ RunObserve(envRoles[envRun.idx].role)
    /\ envRun' = [envRun EXCEPT !.idx = envRun.idx + 1]

\* Environment.run: the next role of the round is run once the previous
\* role's run() has returned.
EnvRunTurn ==
    /\ envRun.active
    /\ \A r \in RoleIds : pc[r] = "idle"
    /\ envRun.idx <= Len(envRoles)
    /\ RunObserve(envRoles[envRun.idx].role)
    /\ envRun' = [envRun EXCEPT !.idx = envRun.idx + 1]

\* Environment.run: a round is over; start the next one or return.
EnvRunRound ==
    /\ envRun.active
    /\ \A r \in RoleIds : pc[r] = "idle"
    /\ envRun.idx > Len(envRoles)
    /\ envRun' = IF envRun.rounds > 1
                 THEN [envRun EXCEPT !.rounds = envRun.rounds - 1, !.idx = 1]
                 ELSE NoRun
    /\ ret' = NoRet
    /\ UNCHANGED <<envMemory, envRoles, rcEnv, rcMemory, rcState, rcTodo, rcNews, pc, local, nextId>>
    /\ UNCHANGED libVars

\* The Message objects a caller can pass to run(message): one it holds from
\* the environment or from an earlier run(), or one it builds for the call.
GivenMessages ==
    Range(envMemory) \cup {Message(nextId, "x", "", "user", c) : c \in ExtCauses}

\* The arguments of run(message).
RunInputs ==
    {[shape |-> s, given |-> <<>>] : s \in MessageShapes \ {"Message"}}
        \cup {[shape |-> "Message", given |-> <<m>>] : m \in GivenMessages}

Next ==
    \/ \E r \in RoleIds : AddRole(r)
    \/ \E c \in ExtCauses : ExtPublish(c)
    \/ \E r \in RoleIds : DriverRun(r)
    \/ \E k \in 1..MaxRounds : EnvRunStart(k)
    \/ EnvRunTurn
    \/ EnvRunRound
    \/ \E r \in RoleIds : Think(r)
    \/ \E r \in RoleIds, a \in Answers : ThinkAnswer(r, a)
    \/ \E r \in RoleIds : Act(r)
    \/ \E r \in RoleIds, s \in BOOLEAN : ActReturn(r, s)
    \/ \E r \in RoleIds : ActRaise(r)
    \/ \E r \in RoleIds : Publish(r)

Spec == Init /\ [][Next]_vars

\* The answers of the decision procedure in the explicit-message session: a
\* valid index, an index out of range, a digit int() rejects, a non-digit.
MsgAnswers == {<<"1">>, <<"7">>, <<"sup2">>, <<"x">>}

\* A session whose roles are run by a caller with explicit messages, in or
\* out of an environment.
NextMsg ==
    \/ \E r \in {"A","B"} : AddRole(r)
    \/ \E r \in RoleIds, i \in RunInputs : DriverRunMessage(r, i.shape, i.given)
    \/ \E r \in RoleIds : Think(r)
    \/ \E r \in RoleIds, a \in MsgAnswers : ThinkAnswer(r, a)
    \/ \E r \in RoleIds : Act(r)
    \/ \E r \in RoleIds, s \in {FALSE} : ActReturn(r, s)
    \/ \E r \in RoleIds : ActRaise(r)
    \/ \E r \in RoleIds : Publish(r)

SpecMsg == Init /\ [][NextMsg]_vars

\* A session of roles A and B in which the caller publishes Messages, some
\* of them more than once.
NextPub ==
    \/ \E r \in {"A", "B"} : AddRole(r)
    \/ \E c \in ExtCauses : ExtPublish(c)
    \/ \E m \in Range(envMemory) : ExtRepublish(m)
    \/ \E k \in 1..MaxRounds : EnvRunStart(k)
    \/ EnvRunTurn
    \/ EnvRunRound
    \/ \E r \in RoleIds : Think(r)
    \/ \E r \in RoleIds, a \in Answers : ThinkAnswer(r, a)
    \/ \E r \in RoleIds : Act(r)
    \/ \E r \in RoleIds : ActReturn(r, FALSE)
    \/ \E r \in RoleIds : ActRaise(r)
    \/ \E r \in RoleIds : Publish(r)

SpecPub == Init /\ [][NextPub]_vars

\* A session in which roles are added, and added again, between the calls of
\* Environment.run.
NextReg ==
    \/ \E r \in RoleIds : AddRole(r)
    \/ \E r \in RoleIds : AddRoleAgain(r)
    \/ \E c \in ExtCauses : ExtPublish(c)
    \/ \E k \in 1..MaxRounds : EnvRunStart(k)
    \/ EnvRunTurn
    \/ EnvRunRound
    \/ \E r \in RoleIds : Think(r)
    \/ \E r \in RoleIds, a \in MsgAnswers : ThinkAnswer(r, a)
    \/ \E r \in RoleIds : Act(r)
    \/ \E r \in RoleIds : ActReturn(r, FALSE)
    \/ \E r \in RoleIds : ActRaise(r)
    \/ \E r \in RoleIds : Publish(r)

SpecReg == Init /\ [][NextReg]_vars

\* A session of roles A and B driven by Environment.run.
NextRun ==
    \/ \E r \in {"A", "B"} : AddRole(r)
    \/ \E c \in ExtCauses : ExtPublish(c)
    \/ \E k \in 1..MaxRounds : EnvRunStart(k)
    \/ EnvRunTurn
    \/ EnvRunRound
    \/ \E r \in RoleIds : Think(r)
    \/ \E r \in RoleIds, a \in MsgAnswers : ThinkAnswer(r, a)
    \/ \E r \in RoleIds : Act(r)
    \/ \E r \in RoleIds : ActReturn(r, FALSE)
    \/ \E r \in RoleIds : ActRaise(r)
    \/ \E r \in RoleIds : Publish(r)

SpecRun == Init /\ [][NextRun]_vars

\* Environment.run and Role.run go on as long as their awaits return: the
\* scheduling loop takes its next step, the decision procedure answers, and
\* the Action returns or raises.
FairRun ==
    /\ WF_vars(EnvRunTurn)
    /\ WF_vars(EnvRunRound)
    /\ \A r \in RoleIds :
          /\ WF_vars(Think(r))
          /\ WF_vars(\E a \in MsgAnswers : ThinkAnswer(r, a))
          /\ WF_vars(Act(r))
          /\ WF_vars(ActReturn(r, FALSE) \/ ActRaise(r))
          /\ WF_vars(Publish(r))

SpecRunFair == Init /\ [][NextRun]_vars /\ FairRun

\* ------------------------------------------------------ AskReview.run steps
\* AskReview.run(context, plan, trigger): build the prompt and call input().
AskReviewRun(trigger) ==
    /\ gate.pc = "idle"
    /\ gate' = [NoGate EXCEPT !.pc = "input", !.prompt = ReviewInstruction(trigger)]
    /\ UNCHANGED <<roleVars, mq, mt, nextId, objects, wire>>

\* Variant of AskReviewInput: an empty line is asked for again.
AskReviewInputRetry(rsp) ==
    /\ gate.pc = "input"
    /\ gate' = IF rsp = <<>>
               THEN [gate EXCEPT !.reads = @ + 1]
               ELSE IF ExitRequested(rsp)
               THEN [gate EXCEPT !.pc = "exited", !.rsp = rsp, !.reads = @ + 1]
               ELSE [gate EXCEPT !.pc = "returned", !.rsp = rsp, !.reads = @ + 1,
                                 !.result = <<[text |-> rsp, confirmed |-> Confirmed(rsp)]>>]
    /\ UNCHANGED <<roleVars, mq, mt, nextId, objects, wire>>

\* input() returns the line rsp: exit() on the exit word, else return
\* (rsp, confirmed).
AskReviewInput(rsp) ==
    /\ gate.pc = "input"
    /\ gate' = IF ExitRequested(rsp)
               THEN [gate EXCEPT !.pc = "exited", !.rsp = rsp, !.reads = @ + 1]
               ELSE [gate EXCEPT !.pc = "returned", !.rsp = rsp, !.reads = @ + 1,
                                 !.result = <<[text |-> rsp, confirmed |-> Confirmed(rsp)]>>]
    /\ UNCHANGED <<roleVars, mq, mt, nextId, objects, wire>>

\* The caller has taken the result; the Action can be run again.
AskReviewReturn ==
    /\ gate.pc = "returned"
    /\ gate' = NoGate
    /\ UNCHANGED <<roleVars, mq, mt, nextId, objects, wire>>

NextReview ==
    \/ \E trigger \in Triggers : AskReviewRun(trigger)
    \/ \E rsp \in Inputs : AskReviewInput(rsp)
    \/ AskReviewReturn

SpecReview == Init /\ [][NextReview]_vars

\* ------------------------------------------------- Message object steps
\* h = Message("x", id=..., cause_by=..., sent_from=..., send_to=...)
MessageNew(h, id, cause_by, sent_from, send_to) ==
    /\ objects[h] = NoObject
    /\ objects' = [objects EXCEPT ![h] = <<MessageOf(nextId, id, "x", cause_by, sent_from, send_to)>>]
    /\ nextId' = IF id = 0 THEN nextId + 1 ELSE nextId
    /\ UNCHANGED <<roleVars, mq, mt, gate, wire>>

\* h.key = val
MessageSetAttr(h, key, val) ==
    /\ objects[h] # NoObject
    /\ objects' = [objects EXCEPT ![h] = <<SetAttr(Head(objects[h]), key, val)>>]
    /\ UNCHANGED <<roleVars, mq, mt, nextId, gate, wire>>

\* h.dump()
MessageDump(h) ==
    /\ objects[h] # NoObject
    /\ wire' \in Dump(Head(objects[h]))
    /\ UNCHANGED <<roleVars, mq, mt, nextId, gate, objects>>

\* a text arrives from elsewhere
WireReceive(val) ==
    /\ wire' = val
    /\ UNCHANGED <<roleVars, mq, mt, nextId, gate, objects>>

\* h = Message.load(wire)
MessageLoad(h) ==
    /\ objects[h] = NoObject
    /\ wire.kind # "none"
    /\ objects' = [objects EXCEPT ![h] = Load(wire, nextId)]
    /\ nextId' = IF wire.kind = "json" THEN nextId + 1 ELSE nextId
    /\ UNCHANGED <<roleVars, mq, mt, gate, wire>>

NextMessage ==
    \/ \E h \in Handles, id \in IdInputs, cause_by \in CauseByInputs,
          sent_from \in SentFromInputs, send_to \in SendToInputs :
          MessageNew(h, id, cause_by, sent_from, send_to)
    \/ \E h \in Handles, key \in AttrKeys : \E val \in AttrValues(key) :
          MessageSetAttr(h, key, val)
    \/ \E h \in Handles : MessageDump(h)
    \/ \E val \in ReceivedTexts : WireReceive(val)
    \/ \E h \in Handles : MessageLoad(h)

SpecMessage == Init /\ [][NextMessage]_vars

\* ------------------------------------------------------ MessageQueue steps
\* queue.push(Message("x")), or a Message whose send_to was emptied
QueuePush ==
    /\ nextId <= MaxMsgs
    /\ \E m \in QueueMessages(nextId) :
          mq' = [mq EXCEPT !.queue = Append(@, m), !.pushed = Append(@, m),
                           !.ret = QueueRet("push", <<>>, FALSE, NotJsonArray)]
    /\ nextId' = nextId + 1
    /\ UNCHANGED <<roleVars, gate, objects, wire, mt>>

\* queue.pop()
QueuePop ==
    /\ mq' = [mq EXCEPT !.queue = Pop(mq.queue).rest,
                        !.popped = @ \o Pop(mq.queue).item,
                        !.ret = QueueRet("pop", Pop(mq.queue).item, FALSE, NotJsonArray)]
    /\ UNCHANGED <<roleVars, nextId, gate, objects, wire, mt>>

\* queue.pop_all()
QueuePopAll ==
    /\ mq' = [mq EXCEPT !.queue = PopAll(mq.queue).rest,
                        !.popped = @ \o PopAll(mq.queue).items,
                        !.ret = QueueRet("pop_all", PopAll(mq.queue).items, FALSE, NotJsonArray)]
    /\ UNCHANGED <<roleVars, nextId, gate, objects, wire, mt>>

\* queue.empty()
QueueEmpty ==
    /\ mq' = [mq EXCEPT !.ret = QueueRet("empty", <<>>, mq.queue = <<>>, NotJsonArray)]
    /\ UNCHANGED <<roleVars, nextId, gate, objects, wire, mt>>

\* await queue.dump() is called: "[]" at once on an empty queue, else the
\* loop is entered.
QueueDumpStart ==
    /\ mq.pc = "idle"
    /\ mq' = IF mq.queue = <<>>
             THEN [mq EXCEPT !.ret = QueueRet("dump", <<>>, FALSE, JsonArray(<<>>))]
             ELSE [mq EXCEPT !.pc = "get", !.msgs = <<>>, !.lst = <<>>,
                             !.ret = NoQueueRet]
    /\ UNCHANGED <<roleVars, nextId, gate, objects, wire, mt>>

\* dump: wait_for(self._queue.get(), 1.0) gives an item, which is appended
\* to msgs and, dumped, to lst.
QueueDumpGet ==
    /\ mq.pc \in {"get", "wait"}
    /\ mq.queue # <<>>
    /\ \E text \in Dump(Head(mq.queue)) :
          mq' = [mq EXCEPT !.pc = "get", !.queue = Tail(@),
                           !.msgs = Append(@, Head(mq.queue)),
                           !.lst = Append(@, text)]
    /\ UNCHANGED <<roleVars, nextId, gate, objects, wire, mt>>

\* dump: get() finds the queue empty and waits.
QueueDumpWait ==
    /\ mq.pc = "get"
    /\ mq.queue = <<>>
    /\ mq' = [mq EXCEPT !.pc = "wait"]
    /\ UNCHANGED <<roleVars, nextId, gate, objects, wire, mt>>

\* dump: the wait times out; finally puts msgs back and the text is returned.
QueueDumpTimeout ==
    /\ mq.pc = "wait"
    /\ mq' = [mq EXCEPT !.pc = "idle", !.queue = @ \o mq.msgs,
                        !.msgs = <<>>, !.lst = <<>>,
                        !.ret = QueueRet("dump", <<>>, FALSE, JsonArray(mq.lst))]
    /\ UNCHANGED <<roleVars, nextId, gate, objects, wire, mt>>

\* MessageQueue.load(data), data the text dump just returned or another text
QueueLoadCall(data) ==
    /\ mq.loads = 0
    /\ data = NotJsonArray \/ (mq.ret.op = "dump" /\ data = mq.ret.text)
    /\ mq' = [mq EXCEPT !.loaded = QueueLoad(data, nextId), !.loads = 1,
                        !.ret = QueueRet("load", <<>>, FALSE, data)]
    /\ nextId' = IF data.kind = "array" THEN nextId + Len(data.items) ELSE nextId
    /\ UNCHANGED <<roleVars, gate, objects, wire, mt>>

\* No dump() is in progress.
NoDumpRunning == mq.pc = "idle"

\* One task uses the queue: a call is made when the last one has returned.
NextQueue ==
    \/ NoDumpRunning /\ QueuePush
    \/ NoDumpRunning /\ QueuePop
    \/ NoDumpRunning /\ QueuePopAll
    \/ NoDumpRunning /\ QueueEmpty
    \/ QueueDumpStart
    \/ QueueDumpGet
    \/ QueueDumpWait
    \/ QueueDumpTimeout
    \/ \E data \in {NotJsonArray, mq.ret.text} : NoDumpRunning /\ QueueLoadCall(data)

SpecQueue == Init /\ [][NextQueue]_vars

\* Several tasks use the queue: push, pop, pop_all and empty do not await
\* and run at any point where the dump() of another task is suspended.
NextQueueAsync ==
    \/ QueuePush
    \/ QueuePop
    \/ QueuePopAll
    \/ QueueEmpty
    \/ QueueDumpStart
    \/ QueueDumpGet
    \/ QueueDumpWait
    \/ QueueDumpTimeout

SpecQueueAsync == Init /\ [][NextQueueAsync]_vars

\* ---------------------------------------------------------- MakeTools steps
\* The body of run starts: the prompt is added to self.context.
ToolsEnter(attempt) ==
    [mt EXCEPT !.pc = "ask", !.attempt = attempt, !.current_try = 0,
               !.context = IF @ = <<>> THEN <<"system", "prompt">> ELSE Append(@, "prompt"),
               !.func_name = <<>>, !.tool_code = <<>>, !.error = ""]

\* await MakeTools().run(code, code_desc)
MakeToolsRun ==
    /\ mt.pc = "idle"
    /\ mt' = [ToolsEnter(1) EXCEPT !.requests = 0]
    /\ UNCHANGED <<roleVars, nextId, gate, objects, wire, mq>>

\* Variant of MakeToolsAsk: the loop is left only after more than max_tries
\* passes.
MakeToolsAskOnceMore(code) ==
    /\ mt.pc = "ask"
    /\ LET func_name == parse_function_name(code)
           current_try == mt.current_try + 1
       IN  mt' = [mt EXCEPT
                    !.requests = @ + 1,
                    !.func_name = func_name,
                    !.tool_code = IF func_name # <<>> \/ current_try > max_tries
                                  THEN code ELSE <<>>,
                    !.current_try = current_try,
                    !.context = IF func_name = <<>> THEN Append(@, "error") ELSE @,
                    !.pc = IF func_name # <<>> \/ current_try > max_tries
                           THEN "save" ELSE "ask"]
    /\ UNCHANGED <<roleVars, nextId, gate, objects, wire, mq>>

\* One pass of the loop: the model answers with code.
MakeToolsAsk(code) ==
    /\ mt.pc = "ask"
    /\ LET func_name == parse_function_name(code)
           current_try == mt.current_try + 1
       IN  mt' = [mt EXCEPT
                    !.requests = @ + 1,
                    !.func_name = func_name,
                    !.tool_code = IF func_name # <<>> \/ current_try >= max_tries
                                  THEN code ELSE <<>>,
                    !.current_try = current_try,
                    !.context = IF func_name = <<>> THEN Append(@, "error") ELSE @,
                    !.pc = IF func_name # <<>> \/ current_try >= max_tries
                           THEN "save" ELSE "ask"]
    /\ UNCHANGED <<roleVars, nextId, gate, objects, wire, mq>>

\* One pass of the loop: the model request raises.
MakeToolsAskRaises ==
    /\ mt.pc = "ask"
    /\ mt' = [mt EXCEPT !.requests = @ + 1, !.pc = "failed", !.error = "LLMError"]
    /\ UNCHANGED <<roleVars, nextId, gate, objects, wire, mq>>

\* After the loop: self.save(tool_code["code"]) and return.
MakeToolsSave ==
    /\ mt.pc = "save"
    /\ LET func_name == parse_function_name(mt.tool_code)
       IN  mt' = IF func_name = <<>>
                 THEN [mt EXCEPT !.pc = "failed", !.error = "ValueError"]
                 ELSE [mt EXCEPT !.pc = "returned",
                                 !.files = {f \in @ : f.name # Head(func_name)}
                                              \cup {[name |-> Head(func_name), text |-> mt.tool_code]}]
    /\ UNCHANGED <<roleVars, nextId, gate, objects, wire, mq>>

\* @retry(stop=stop_after_attempt(3), wait=wait_fixed(1)): the body raised;
\* it is run again, or RetryError is raised after the last attempt.
MakeToolsRetry ==
    /\ mt.pc = "failed"
    /\ mt' = IF mt.attempt >= stop_after_attempt
             THEN [mt EXCEPT !.pc = "raised", !.error = "RetryError"]
             ELSE ToolsEnter(mt.attempt + 1)
    /\ UNCHANGED <<roleVars, nextId, gate, objects, wire, mq>>

NextTools ==
    \/ MakeToolsRun
    \/ \E code \in Codes : MakeToolsAsk(code)
    \/ MakeToolsAskRaises
    \/ MakeToolsSave
    \/ MakeToolsRetry

SpecTools == Init /\ [][NextTools]_vars

\* The event loop runs a call of run that can take a step.
FairTools == WF_vars(NextTools)

SpecToolsFair == SpecTools /\ FairTools

\* ------------------------------------------------------------------ claims
\* The environment messages role r watches and does not hold yet.
Unseen(r) ==
    {m \in Range(envMemory) : m.cause_by \in RoleWatch(r) /\ m \notin Range(rcMemory[r])}

\* A plain non-negative decimal integer literal.
PlainLiteral(a) == Len(a) > 0 /\ \A i \in 1..Len(a) : a[i] \in DecimalChars

\* The state the parsing policy prescribes for answer a and n states.
PolicyState(a, n) == IF PlainLiteral(a) /\ IntOf(a) < n THEN IntOf(a) ELSE 0

\* C1: for a role with n >= 2 actions and every answer a of the decision
\* procedure, the state after think() is int(a) when a is a plain decimal
\* literal with 0 <= int(a) < n, and 0 for every other a.
C1_ThinkFollowsPolicy ==
    [][\A r \in RoleIds, a \in Answers :
         (Len(RoleActions(r)) >= 2 /\ ThinkAnswer(r, a))
            => rcState'[r] = PolicyState(a, Len(RoleActions(r)))]_vars

\* C2: think() never raises: whatever the decision procedure answers, think()
\* completes with a selected state and the role goes on to act; nothing is
\* surfaced to the caller of run().
C2_ThinkNeverRaises ==
    [][\A r \in RoleIds, a \in Answers :
         ThinkAnswer(r, a) => pc'[r] = "act" /\ ret'.status = ""]_vars

\* C3: a role with exactly one action never waits for the decision procedure,
\* and whenever its think() has completed, state is 0 and todo is that action.
C3_SingleActionState0 ==
    \A r \in RoleIds :
        Len(RoleActions(r)) = 1 =>
            /\ pc[r] # "think_wait"
            /\ pc[r] \in {"act", "act_wait", "publish"} =>
                   rcState[r] = 0 /\ rcTodo[r] = <<RoleActions(r)[1]>>

C3_Witness ==
    \E r \in RoleIds :
        Len(RoleActions(r)) = 1 /\ pc[r] = "act" /\ rcState[r] = 0 /\ rcTodo[r] # <<>>

\* The environment messages role r does not hold yet, in environment order.
Backlog(r) == SelectSeq(envMemory, LAMBDA m : m \notin Range(rcMemory[r]))

\* run() of role r was called without message in this step and returned None.
RunReturnsNone(r) == RunObserve(r) /\ ret'.role = r /\ ret'.status = "None"

\* C4 as stated: a run() without message whose observe yields zero news
\* returns no Message and leaves the size of the private memory unchanged,
\* whatever the environment's memory holds.
C4_IdleRunKeepsMemorySize ==
    [][\A r \in RoleIds :
         RunReturnsNone(r) => Len(rcMemory'[r]) = Len(rcMemory[r])]_vars

\* C4 amended: a run() without message whose observe yields zero news returns
\* no Message and appends to the private memory exactly the environment
\* messages not yet in it, in environment order; all of them are of kinds the
\* role does not watch, and without an environment nothing is appended.
C4_IdleRunAppendsBacklog ==
    [][\A r \in RoleIds :
         RunReturnsNone(r) =>
            /\ ret'.value = <<>>
            /\ pc'[r] = "idle"
            /\ rcMemory'[r] = IF rcEnv[r] THEN rcMemory[r] \o Backlog(r) ELSE rcMemory[r]
            /\ rcEnv[r] => \A m \in Range(Backlog(r)) : m.cause_by \notin RoleWatch(r)]_vars

\* A role returned None from run() after taking in an unwatched message.
C4_Witness ==
    \E r \in RoleIds :
        /\ ret.role = r /\ ret.status = "None" /\ rcEnv[r]
        /\ RoleWatch(r) # {} /\ rcNews[r] = <<>>
        /\ \E m \in Range(rcMemory[r]) :
              m \in Range(envMemory) /\ m.cause_by \notin RoleWatch(r) /\ m.role # RoleProfile(r)

\* C5: backpressure.  A run() without message goes on to think, act and
\* publish only if the environment held a watched message that was not in
\* the private memory; otherwise it returns None at once and changes neither
\* the selected state nor the environment's memory.
C5_Backpressure ==
    [][\A r \in RoleIds :
         RunObserve(r) =>
            /\ pc'[r] = "think" <=> (rcEnv[r] /\ Unseen(r) # {})
            /\ pc'[r] # "think" =>
                  /\ pc'[r] = "idle" /\ ret'.status = "None"
                  /\ envMemory' = envMemory
                  /\ rcState'[r] = rcState[r] /\ rcTodo'[r] = rcTodo[r]]_vars

\* A role is reacting to news, and a role has just gone idle on a non-empty
\* environment memory.
C5_Witness ==
    /\ \E r \in RoleIds : pc[r] = "publish" /\ rcNews[r] # <<>>
    /\ \E r \in RoleIds : rcEnv[r] /\ RoleWatch(r) # {} /\ pc[r] = "idle"
                          /\ \E m \in Range(rcMemory[r]) : m.cause_by \in RoleWatch(r)

\* C6: observe() with an environment attached reports exactly the number of
\* environment messages whose cause_by is watched and that are not in the
\* private memory, and run() proceeds exactly when that number is not zero.
C6_ObserveCountsUnseen ==
    [][\A r \in RoleIds :
         (RunObserve(r) /\ rcEnv[r]) =>
            /\ Len(rcNews'[r]) = Cardinality(Unseen(r))
            /\ Range(rcNews'[r]) = Unseen(r)
            /\ pc'[r] = "think" <=> Cardinality(Unseen(r)) > 0]_vars

\* One message of a kind role A watches is published; A reports 1 and the
\* role that watches nothing reports 0.
C6_Witness ==
    /\ Len(envMemory) = 1 /\ envMemory[1].cause_by = UserRequirement
    /\ rcEnv["A"] /\ Len(rcNews["A"]) = 1 /\ rcMemory["A"][1] = envMemory[1]
    /\ rcEnv["C"] /\ RoleWatch("C") = {} /\ rcNews["C"] = <<>> /\ rcMemory["C"] = envMemory

\* No message is stored twice in storage.
NoDuplicates(storage) ==
    \A i, j \in 1..Len(storage) : storage[i] = storage[j] => i = j

\* C7: after every observe() with an environment attached every message of
\* the environment's memory is in the private memory, watched or not, and no
\* private memory ever stores a message twice.
C7_ObserveReceivesAll ==
    /\ [](\A r \in RoleIds : NoDuplicates(rcMemory[r]))
    /\ [][\A r \in RoleIds :
            (RunObserve(r) /\ rcEnv[r]) => Range(envMemory) \subseteq Range(rcMemory'[r])]_vars

\* A role holds an environment message of a kind it does not watch.
C7_Witness ==
    \E r \in RoleIds :
        /\ rcEnv[r] /\ Len(rcMemory[r]) >= 2 /\ Range(envMemory) \subseteq Range(rcMemory[r])
        /\ \E m \in Range(envMemory) : m.cause_by \notin RoleWatch(r) /\ m.role # RoleProfile(r)

\* C8: no watched message is lost.  A published message that role r watches
\* and does not hold is news of r's next observe(), and it enters r's private
\* memory in no other way than by being counted as news.
C8_NoWatchedMessageLost ==
    [][\A r \in RoleIds : \A m \in Unseen(r) :
         /\ (RunObserve(r) /\ rcEnv[r]) => m \in Range(rcNews'[r])
         /\ m \in Range(rcMemory'[r]) => m \in Range(rcNews'[r])]_vars

\* Role B, registered late, finds a backlog of two watched messages in its
\* first observe: role C held B's profile in an earlier Environment.run and
\* took both messages in then.
C8_Witness ==
    /\ Len(rcNews["B"]) = 2
    /\ rcNews["B"][1].cause_by = UserRequirement
    /\ rcNews["B"][2].cause_by = "ActA"
    /\ pc["B"] = "think"
    /\ rcMemory["B"] = rcNews["B"]
    /\ EnvGetRole(envRoles, RoleProfile("B")) = <<"B">>
    /\ rcNews["B"][2] \in Range(rcMemory["C"])

\* The own additions of role r: the messages its _act built.
OwnMessage(r, m) == m.role = RoleProfile(r) /\ m.cause_by \in Range(RoleActions(r))

\* C9: a published message changes another role's private memory and news
\* only at that role's observe().  A role that is past its observe keeps
\* exactly the memory it had, plus the message its own act adds, and the
\* context handed to its Action is the watched part of that memory.
C9_VisibilityAtObserve ==
    [][\A r \in RoleIds :
         /\ rcNews'[r] # rcNews[r] => RunObserve(r)
         /\ rcMemory'[r] # rcMemory[r] =>
               \/ RunObserve(r)
               \/ /\ pc[r] = "act_wait"
                  /\ \E m \in Range(rcMemory'[r]) :
                        OwnMessage(r, m) /\ rcMemory'[r] = Append(rcMemory[r], m)
         /\ (pc[r] = "act" /\ pc'[r] = "act_wait") =>
               local'[r].requirement =
                   SelectSeq(rcMemory[r], LAMBDA m : m.cause_by \in RoleWatch(r))
         /\ pc[r] = "act_wait" => local'[r].requirement \in {local[r].requirement, <<>>}]_vars

\* A watched message was published while role B waits for its Action: it is
\* in the environment, and neither in B's memory nor in B's context.
C9_Witness ==
    /\ pc["B"] = "act_wait"
    /\ \E m \in Range(envMemory) :
          /\ m.cause_by \in RoleWatch("B")
          /\ m \notin Range(rcMemory["B"])
          /\ m \notin Range(local["B"].requirement)

\* C10: role turns are not interleaved.  At most one role is inside run() at
\* any time, also while it waits for its Action, and only while that role is
\* idle does Environment.run move on.
C10_TurnsNotInterleaved ==
    /\ [](\A r1, r2 \in RoleIds : (pc[r1] # "idle" /\ pc[r2] # "idle") => r1 = r2)
    /\ [][envRun' # envRun => \A r \in RoleIds : pc[r] = "idle" \/ ret'.role = r]_vars

\* Role A waits for its Action while Environment.run still has a role to run
\* in this round.
C10_Witness ==
    /\ pc["A"] = "act_wait"
    /\ envRun.active /\ envRun.idx <= Len(envRoles)
    /\ envRoles[envRun.idx].role # "A"

\* The moves of a role through one turn of run(): observe (or the explicit
\* message) leads to think, think to act, act to publish, publish to the
\* return; think and act can also end the turn by raising.
TurnOrder ==
    {<<"idle", "think">>, <<"think", "think_wait">>, <<"think", "act">>,
     <<"think_wait", "act">>, <<"think_wait", "idle">>, <<"act", "act_wait">>,
     <<"act_wait", "publish">>, <<"act_wait", "idle">>, <<"publish", "idle">>}

\* C11: within one turn of a role the steps occur in the order observe,
\* think, act, publish.  think starts only after observe has returned its
\* news (all of it received), act starts only after think has set the state
\* and the todo, and the message published and returned is the one act has
\* built and stored.
C11_TurnOrder ==
    [][\A r \in RoleIds :
         /\ pc'[r] # pc[r] => <<pc[r], pc'[r]>> \in TurnOrder
         /\ (pc[r] = "idle" /\ pc'[r] = "think") =>
               /\ rcNews'[r] # <<>>
               /\ Range(rcNews'[r]) \subseteq Range(rcMemory'[r])
         /\ pc'[r] = "act_wait" =>
               /\ rcState'[r] + 1 \in 1..Len(RoleActions(r))
               /\ rcTodo'[r] = <<RoleActions(r)[rcState'[r] + 1]>>
         /\ pc'[r] = "publish" =>
               /\ local'[r].rsp # <<>>
               /\ Head(local'[r].rsp).cause_by = Head(rcTodo'[r])
               /\ Head(local'[r].rsp) \in Range(rcMemory'[r])
         /\ (ret'.role = r /\ ret'.status = "Message") =>
               pc[r] = "publish" /\ ret'.value = local[r].rsp]_vars

\* Role B has gone through observe, think (state 2), act and publish, and
\* run() has returned the published message.
C11_Witness ==
    /\ ret.role = "B" /\ ret.status = "Message"
    /\ rcState["B"] = 2 /\ rcNews["B"] # <<>>
    /\ Head(ret.value).cause_by = "ActB2"
    /\ Head(ret.value) \in Range(envMemory)

\* C12 as stated: run(message) with an explicit message of any shape (a
\* string, a single Message, an ordered batch) folds the input into the
\* private memory without invoking observe() and goes on to react().
C12_RunMessageFoldsAnyShape ==
    [][\A r \in RoleIds, i \in RunInputs :
         DriverRunMessage(r, i.shape, i.given) =>
            /\ pc'[r] = "think" /\ ret'.status = ""
            /\ rcNews'[r] = rcNews[r]
            /\ Len(rcMemory'[r]) <= Len(rcMemory[r]) + 1]_vars

\* The private memory of role r after message m was folded into it.
Folded(r, m) == IF m \in Range(rcMemory[r]) THEN rcMemory[r] ELSE Append(rcMemory[r], m)

\* C12 amended: run(message) with a non-empty string, a single Message or a
\* non-empty batch of strings folds the input into the private memory as one
\* Message (the string wrapped, the batch joined with newlines; role "user",
\* cause_by UserRequirement) without invoking observe(), and goes on to
\* react().  An empty string or batch is no message: observe() is invoked.
\* A batch of Message objects raises TypeError and nothing is folded.
C12_RunMessageFolds ==
    [][\A r \in RoleIds, i \in RunInputs :
         ((pc'[r] = "think" \/ ret'.role = r) /\ DriverRunMessage(r, i.shape, i.given)) =>
            /\ i.shape \in {"str", "list_str"} =>
                  /\ rcMemory'[r] = Append(rcMemory[r],
                        [id |-> nextId,
                         content |-> IF i.shape = "str" THEN "x" ELSE "x\nx",
                         instruct_content |-> "", role |-> "user",
                         cause_by |-> UserRequirement, sent_from |-> "",
                         send_to |-> {MESSAGE_ROUTE_TO_ALL}])
                  /\ nextId' = nextId + 1
            /\ i.shape = "Message" => rcMemory'[r] = Folded(r, Head(i.given))
            /\ i.shape \in {"str", "list_str", "Message"} =>
                  /\ pc'[r] = "think" /\ ret'.status = ""
                  /\ local'[r].message
                  /\ rcNews' = rcNews /\ envMemory' = envMemory
                  /\ \A q \in RoleIds \ {r} : rcMemory'[q] = rcMemory[q]
            /\ i.shape = "list_msg" =>
                  /\ ret'.role = r /\ ret'.status = "TypeError"
                  /\ pc'[r] = "idle" /\ rcMemory' = rcMemory /\ rcNews' = rcNews
            /\ i.shape = "empty" =>
                  /\ ~local'[r].message
                  /\ rcMemory'[r] = IF rcEnv[r] THEN rcMemory[r] \o Backlog(r) ELSE rcMemory[r]
                  /\ rcNews'[r] = IF rcEnv[r]
                                  THEN SelectSeq(Backlog(r), LAMBDA m : m.cause_by \in RoleWatch(r))
                                  ELSE rcNews[r]
                  /\ pc'[r] = "think" <=> (rcEnv[r] /\ Unseen(r) # {})]_vars

\* Role B, in an environment that holds a message B watches and has not
\* received, was run with a batch of strings: the joined message is the last
\* of its memory, the environment's message is not in it, and B is thinking.
C12_Witness ==
    /\ rcEnv["B"] /\ pc["B"] = "think" /\ local["B"].message
    /\ rcMemory["B"] # <<>>
    /\ rcMemory["B"][Len(rcMemory["B"])].content = "x\nx"
    /\ \E m \in Range(envMemory) :
          m.cause_by \in RoleWatch("B") /\ m \notin Range(rcMemory["B"])

\* C13: whenever run() returns a Message and an environment is attached, the
\* Message is in the environment's memory when run() returns; without an
\* environment run() returns the Message all the same and the step publishes
\* nothing.
C13_PublishedBeforeReturn ==
    [][\A r \in RoleIds :
         (ret'.role = r /\ ret'.status = "Message") =>
            /\ Len(ret'.value) = 1
            /\ ret'.value = local[r].rsp
            /\ rcEnv[r] => Head(ret'.value) \in Range(envMemory')
            /\ ~rcEnv[r] => envMemory' = envMemory
            /\ UNCHANGED <<rcMemory, rcNews, rcState, rcTodo, envRoles>>]_vars

\* Role B, in no environment, has returned a Message from run(message) that
\* is nowhere in the environment's memory, while the environment holds the
\* Message role A returned before.
C13_Witness ==
    /\ ret.role = "B" /\ ret.status = "Message" /\ ~rcEnv["B"]
    /\ Head(ret.value) \notin Range(envMemory)
    /\ Head(ret.value) \in Range(rcMemory["B"])
    /\ rcEnv["A"]
    /\ \E m \in Range(envMemory) : m.cause_by = "ActA" /\ m \in Range(rcMemory["A"])

\* C14: every Message built by act() has role equal to the role's profile,
\* cause_by equal to the type of the Action executed, sent_from equal to the
\* role's name and send_to equal to the broadcast wildcard, for plain-text
\* and structured results alike.
C14_ActMessageFields ==
    [][\A r \in RoleIds, structured \in BOOLEAN :
         ActReturn(r, structured) =>
            LET msg == Head(local'[r].rsp)
            IN  /\ msg.role = RoleProfile(r)
                /\ msg.cause_by = RoleActions(r)[rcState[r] + 1]
                /\ msg.sent_from = RoleName(r)
                /\ msg.send_to = {MESSAGE_ROUTE_TO_ALL}]_vars

\* C15: act() adds the Message it builds to the role's private memory before
\* returning it.  The Message a role is about to publish, the Message its
\* run() has just returned, and every Message it returned and published in
\* an earlier turn are in its private memory.
C15_ActStoresMessage ==
    \A r \in RoleIds :
        /\ local[r].rsp # <<>> => Head(local[r].rsp) \in Range(rcMemory[r])
        /\ (ret.role = r /\ ret.status = "Message") =>
               Head(ret.value) \in Range(rcMemory[r])
        /\ \A m \in Range(envMemory) : OwnMessage(r, m) => m \in Range(rcMemory[r])

\* Role B has returned its Message: it is the last of B's memory, after the
\* messages B took in, and the Message role A returned in an earlier turn is
\* still in A's memory.
C15_Witness ==
    /\ ret.role = "B" /\ ret.status = "Message"
    /\ Len(rcMemory["B"]) >= 3
    /\ rcMemory["B"][Len(rcMemory["B"])] = Head(ret.value)
    /\ \E m \in Range(envMemory) : OwnMessage("A", m) /\ m \in Range(rcMemory["A"])

\* C16: when the Action executed by a role raises, the exception leaves
\* run() uncaught (and ends the Environment.run awaiting it), no response
\* Message is built or added to any private memory, nothing is published,
\* and the role does not run the Action again: its turn is over.
C16_ActionFailurePropagates ==
    [][\A r \in RoleIds :
         ActRaise(r) =>
            /\ ret'.role = r /\ ret'.status = "ActionError" /\ ret'.value = <<>>
            /\ pc'[r] = "idle"
            /\ local'[r].rsp = <<>>
            /\ rcMemory' = rcMemory /\ envMemory' = envMemory /\ nextId' = nextId
            /\ ~envRun'.active]_vars

\* The Action of role B raised inside an Environment.run: the run is over,
\* B is idle, B holds the news it reacted to and no Message of its own, and
\* the environment holds no Message of B.
C16_Witness ==
    /\ ret.role = "B" /\ ret.status = "ActionError"
    /\ pc["B"] = "idle" /\ rcEnv["B"] /\ ~envRun.active
    /\ rcNews["B"] # <<>> /\ Range(rcNews["B"]) \subseteq Range(rcMemory["B"])
    /\ \A m \in Range(rcMemory["B"]) \cup Range(envMemory) : ~OwnMessage("B", m)

\* The stores of the session: the environment's memory and the private ones.
Stores == {envMemory} \cup {rcMemory[r] : r \in RoleIds}

\* The messages of the session, and one that is in no store yet.
KnownMessages ==
    UNION {Range(s) : s \in Stores} \cup {Message(nextId, "x", "", "user", "")}

\* C17: idempotent append.  For every store and every message, Memory.add and
\* Role.recv leave the ordered content unchanged when the store contains the
\* message and append it at the end when it does not; adding it a second time
\* changes nothing.  Containment is by value: a message that differs from a
\* stored one in its content only is appended.
C17_IdempotentAppend ==
    \A s \in Stores, m \in KnownMessages :
        /\ m \in Range(s) => MemoryAdd(s, m) = s /\ Recv(s, m) = s
        /\ m \notin Range(s) =>
              /\ MemoryAdd(s, m) = Append(s, m) /\ Recv(s, m) = Append(s, m)
              /\ Recv(Recv(s, m), m) = Append(s, m)
              /\ MemoryAdd(MemoryAdd(s, m), m) = Append(s, m)
        /\ m \in Range(s) =>
              LET edited == [m EXCEPT !.content = "edited"]
              IN  Recv(s, edited) = Append(s, edited)

\* Role C holds the first two of the environment's three messages: receiving
\* one of them again is the no-op case, receiving the third the append case.
C17_Witness ==
    /\ Len(envMemory) = 3 /\ Len(rcMemory["C"]) = 2
    /\ rcMemory["C"] = SubSeq(envMemory, 1, 2)
    /\ Recv(rcMemory["C"], envMemory[1]) = rcMemory["C"]
    /\ Recv(rcMemory["C"], envMemory[3]) = envMemory

\* s is an initial part of t.
IsPrefix(s, t) == Len(s) <= Len(t) /\ SubSeq(t, 1, Len(s)) = s

\* C18: every memory store is append-only.  In every step (observe, act,
\* recv, run, publish_message) the content of the environment's memory and
\* of each private memory before the step is a prefix of its content after
\* the step: no message is removed, edited or reordered.
C18_AppendOnly ==
    [][/\ IsPrefix(envMemory, envMemory')
       /\ \A r \in RoleIds : IsPrefix(rcMemory[r], rcMemory'[r])]_vars

\* Role B's memory has grown three times (the requirement, role A's Message,
\* B's own Message) and the environment's memory holds three messages.
C18_Witness ==
    /\ Len(rcMemory["B"]) = 3 /\ Len(envMemory) = 3
    /\ rcMemory["B"][1].cause_by = UserRequirement
    /\ rcMemory["B"][2].cause_by = "ActA"
    /\ OwnMessage("B", rcMemory["B"][3])
    /\ rcMemory["B"] = envMemory

\* The store after message m was published to it.
Mirrored(store, m) == IF m \in Range(store) THEN store ELSE Append(store, m)

\* C19: the environment's memory mirrors every published Message.  Every
\* publish_message call, by a caller or through Role.run, leaves its Message
\* in the global memory: a Message published for the first time is appended
\* at the end, a Message published again keeps its place, the memory changes
\* in no other way, and it never holds a Message twice.
C19_GlobalMemoryMirrors ==
    /\ [](NoDuplicates(envMemory))
    /\ [][/\ \A c \in ExtCauses :
               ExtPublish(c) =>
                  /\ Len(envMemory') = Len(envMemory) + 1
                  /\ SubSeq(envMemory', 1, Len(envMemory)) = envMemory
                  /\ envMemory'[Len(envMemory')].id = nextId
                  /\ envMemory'[Len(envMemory')].cause_by = UserRequirement
          /\ \A m \in Range(envMemory) : ExtRepublish(m) => envMemory' = envMemory
          /\ \A r \in RoleIds :
               (Publish(r) /\ rcEnv[r]) =>
                  /\ Head(ret'.value) \in Range(envMemory')
                  /\ envMemory' = Mirrored(envMemory, Head(local[r].rsp))
          /\ envMemory' # envMemory =>
               \/ \E c \in ExtCauses : ExtPublish(c)
               \/ \E r \in RoleIds : Publish(r)]_vars

\* Three publications in their order: the caller's requirement, the Message
\* role A returned, and the Message role B has just returned.
C19_Witness ==
    /\ Len(envMemory) = 3
    /\ envMemory[1].role = "user"
    /\ OwnMessage("A", envMemory[2])
    /\ OwnMessage("B", envMemory[3])
    /\ ret.role = "B" /\ ret.value = <<envMemory[3]>>

\* C20: delivery is pull-based.  A publish_message call, by a caller or by a
\* role publishing its response, changes only the environment's memory:
\* the private memory, news, state and todo of every role stay as they are.
C20_PublishChangesOnlyGlobalMemory ==
    [][(\/ \E c \in ExtCauses : ExtPublish(c)
        \/ \E m \in Range(envMemory) : ExtRepublish(m)
        \/ \E r \in RoleIds : Publish(r))
          => /\ rcMemory' = rcMemory /\ rcNews' = rcNews
             /\ rcState' = rcState /\ rcTodo' = rcTodo
             /\ envRoles' = envRoles /\ rcEnv' = rcEnv]_vars

\* Role A has just published a Message that the registered role B watches:
\* it is in the environment's memory and not in B's memory or news.
C20_Witness ==
    /\ ret.role = "A" /\ ret.status = "Message"
    /\ rcEnv["B"] /\ pc["B"] = "idle"
    /\ Head(ret.value) \in Range(envMemory)
    /\ Head(ret.value).cause_by \in RoleWatch("B")
    /\ Head(ret.value) \notin Range(rcMemory["B"]) \cup Range(rcNews["B"])

\* The roles that were added to the environment so far.
Added == {r \in RoleIds : rcEnv[r]}

\* C21: role registry.  After every add_role(r), get_role(profile of r) is r
\* (last write wins) and the entries of the other profiles are as before;
\* get_roles() holds exactly one entry per distinct profile added; every role
\* that was added has the environment bound, and keeps it.
C21_RoleRegistry ==
    /\ [](/\ \A i, j \in 1..Len(envRoles) :
                envRoles[i].profile = envRoles[j].profile => i = j
          /\ {envRoles[i].profile : i \in 1..Len(envRoles)} = {RoleProfile(r) : r \in Added}
          /\ \A i \in 1..Len(envRoles) :
                /\ envRoles[i].role \in Added
                /\ RoleProfile(envRoles[i].role) = envRoles[i].profile)
    /\ [][\A r \in RoleIds :
            /\ (AddRole(r) \/ AddRoleAgain(r)) =>
                  /\ EnvGetRole(envRoles', RoleProfile(r)) = <<r>>
                  /\ rcEnv'[r]
                  /\ \A q \in RoleIds :
                        RoleProfile(q) # RoleProfile(r) =>
                           EnvGetRole(envRoles', RoleProfile(q)) = EnvGetRole(envRoles, RoleProfile(q))
            /\ rcEnv[r] => rcEnv'[r]]_vars

\* Role B was added, then role A, then role C under B's profile, then B
\* again: get_role("Architect") is B, the registry has two entries with the
\* Architect's in the first place, and all three roles have the environment.
C21_Witness ==
    /\ Added = RoleIds
    /\ Len(envRoles) = 2
    /\ envRoles[1].profile = RoleProfile("C")
    /\ EnvGetRole(envRoles, RoleProfile("C")) = <<"B">>
    /\ EnvGetRole(envRoles, RoleProfile("A")) = <<"A">>
    /\ \E m \in Range(rcMemory["C"]) : m \in Range(envMemory)

\* The number of role.run() calls the Environment.run in progress has still
\* to make: the rest of this round and the rounds after it.
RunsLeft ==
    IF envRun.active
    THEN (envRun.rounds - 1) * Len(envRoles) + (Len(envRoles) + 1 - envRun.idx)
    ELSE 0

\* A turn of role r starts in this step: r goes on to think, or its run()
\* returns None at once.
RunStarts(r) ==
    \/ pc[r] # "think" /\ pc'[r] = "think"
    \/ ret'.role = r /\ ret'.status = "None"

AllKinds == {UserRequirement} \cup UNION {Range(RoleActions(r)) : r \in RoleIds}

\* sub holds exactly the messages of store whose cause_by is in kinds, each
\* once, in the order they have in store.
IsFilteredSubsequence(sub, store, kinds) ==
    /\ Range(sub) = {m \in Range(store) : m.cause_by \in kinds}
    /\ NoDuplicates(sub)
    /\ \A i, j \in 1..Len(sub) :
          i < j => \E a, b \in 1..Len(store) : a < b /\ store[a] = sub[i] /\ store[b] = sub[j]

\* C28: filtered retrieval.  For every store and every set of kinds,
\* get_by_actions(kinds) is exactly the messages of get() whose cause_by is
\* in kinds, in the same relative order; and the context act() passes to the
\* Action is that subsequence of the role's private memory over its watch set.
C28_FilteredRetrieval ==
    /\ [](\A s \in Stores, kinds \in SUBSET AllKinds :
             IsFilteredSubsequence(MemoryGetByActions(s, kinds), MemoryGet(s), kinds))
    /\ [][\A r \in RoleIds :
            (pc[r] = "act" /\ pc'[r] = "act_wait") =>
               IsFilteredSubsequence(local'[r].requirement, rcMemory[r], RoleWatch(r))]_vars

\* Role A waits for its Action with a context of two requirements, taken
\* from a memory of three messages whose second, A's own, is not watched.
C28_Witness ==
    /\ pc["A"] = "act_wait"
    /\ Len(rcMemory["A"]) = 3 /\ Len(local["A"].requirement) = 2
    /\ local["A"].requirement = <<rcMemory["A"][1], rcMemory["A"][3]>>
    /\ rcMemory["A"][2].cause_by \notin RoleWatch("A")

\* C29: state/todo consistency.  For a role with n >= 1 actions, whenever
\* its think() has completed, 0 <= state < n and todo is the Action at index
\* state; a todo, once set, is always the Action at index state; state and
\* todo do not change between think() and the end of act(), and the Message
\* act() builds is caused by the Action that think() selected.
C29_StateTodoConsistent ==
    /\ [](\A r \in RoleIds :
             Len(RoleActions(r)) >= 1 =>
                /\ pc[r] \in {"act", "act_wait", "publish"} => rcTodo[r] # <<>>
                /\ rcTodo[r] # <<>> =>
                      /\ rcState[r] \in 0..(Len(RoleActions(r)) - 1)
                      /\ rcTodo[r] = <<RoleActions(r)[rcState[r] + 1]>>)
    /\ [][\A r \in RoleIds :
            /\ pc[r] \in {"act", "act_wait"} =>
                  rcState'[r] = rcState[r] /\ rcTodo'[r] = rcTodo[r]
            /\ (pc[r] = "act_wait" /\ pc'[r] = "publish") =>
                  Head(local'[r].rsp).cause_by = RoleActions(r)[rcState[r] + 1]]_vars

\* Role B is about to act in state 1 with todo ActB1, after a turn in which
\* it acted in state 2.
C29_Witness ==
    /\ pc["B"] = "act" /\ rcState["B"] = 1 /\ rcTodo["B"] = <<"ActB1">>
    /\ \E m \in Range(rcMemory["B"]) : m.role = RoleProfile("B") /\ m.cause_by = "ActB2"

\* C30: an environment message is counted as news by a role at most once.
\* The news of an observe() holds no message twice and none the role holds
\* already; everything that was news is in the private memory from then on,
\* so no later observe() of the role counts it again.
C30_NewsAtMostOnce ==
    /\ [](\A r \in RoleIds :
             NoDuplicates(rcNews[r]) /\ Range(rcNews[r]) \subseteq Range(rcMemory[r]))
    /\ [][\A r \in RoleIds :
            /\ (RunObserve(r) /\ rcEnv[r]) =>
                  /\ Range(rcNews'[r]) \cap Range(rcMemory[r]) = {}
                  /\ Range(rcNews'[r]) \cap Range(rcNews[r]) = {}
            /\ Range(rcMemory[r]) \subseteq Range(rcMemory'[r])]_vars

\* Role A has observed a second time: its news is the one requirement
\* published since, and the requirement that was its news before is in its
\* memory and not in its news.
C30_Witness ==
    /\ pc["A"] = "think" /\ Len(rcNews["A"]) = 1
    /\ \E m \in Range(rcMemory["A"]) :
          /\ m.cause_by \in RoleWatch("A") /\ m \notin Range(rcNews["A"])
          /\ m \in Range(envMemory)
    /\ \E m \in Range(rcMemory["A"]) : OwnMessage("A", m)

\* A step in which input() returns a line; the line is then gate'.rsp.
LineRead == gate.pc = "input" /\ gate'.pc # "input" /\ gate'.rsp \in Inputs

\* The line read is an exit token, or holds one.
HoldsExitToken(s) == \E w \in Range(EXIT_WORD) : s = w \/ Contains(w, s)

\* C23 as stated: for every operator input that is exactly an exit token or
\* that contains an exit token, the gate terminates the process and returns
\* no (text, confirmed) result.
C23_ExitOnTokenOrContaining ==
    [][(LineRead /\ HoldsExitToken(gate'.rsp)) =>
          gate'.pc = "exited" /\ gate'.result = <<>>]_vars

\* C23 (amended): for every operator input that is exactly an exit token,
\* the gate terminates the entire process (no step follows) and returns no
\* (text, confirmed) result to its caller.
C23_ExitOnToken ==
    /\ [][(LineRead /\ gate'.rsp \in Range(EXIT_WORD)) =>
             gate'.pc = "exited" /\ gate'.result = <<>>]_vars
    /\ [](gate.pc = "exited" => gate.result = <<>>)
    /\ [][gate.pc # "exited"]_vars

\* The gate has terminated the process on the input "exit".
C23_Witness ==
    /\ gate.pc = "exited" /\ gate.rsp = EXIT_WORD[1] /\ gate.result = <<>>

\* The line read is an exit token in some letter case.
IsExitInput(s) == Lower(s) \in Range(EXIT_WORD)

\* C24 as stated: for every non-exit input s the gate returns (s, confirmed)
\* with confirmed true exactly when s equals a continue token or contains
\* "confirm", and false for every other s.  (Non-exit is taken in the widest
\* sense: s holds no exit token in any letter case.)
C24_ConfirmedIffToken ==
    [][(LineRead /\ ~HoldsExitToken(Lower(gate'.rsp))) =>
          LET s == gate'.rsp
          IN  gate'.result = <<[text |-> s,
                                confirmed |-> (s \in Range(CONTINUE_WORD)
                                               \/ Contains(CONTINUE_WORD[1], s))]>>]_vars

\* C24 (amended): for every input s that is not an exit token in any letter
\* case, the gate returns the pair (s, confirmed) with s verbatim, where
\* confirmed is true exactly when s in lower case equals one of the continue
\* tokens or contains "confirm", and false for every other s, including the
\* empty string.
C24_ConfirmedIffLowerToken ==
    /\ [][(LineRead /\ ~IsExitInput(gate'.rsp)) =>
            LET s == gate'.rsp
            IN /\ gate'.pc = "returned"
               /\ Len(gate'.result) = 1
               /\ Head(gate'.result).text = s
               /\ Head(gate'.result).confirmed =
                     (\/ \E i \in 1..Len(CONTINUE_WORD) : Lower(s) = CONTINUE_WORD[i]
                      \/ \E i \in 0..(Len(s) - 7) :
                            Lower(SubSeq(s, i + 1, i + 7)) = <<"c", "o", "n", "f", "i", "r", "m">>)]_vars
    /\ [][(LineRead /\ gate'.rsp = <<>>) =>
             gate'.result = <<[text |-> <<>>, confirmed |-> FALSE]>>]_vars

\* The gate has returned ("YES", true): confirmed by a token typed in capitals.
C24_Witness ==
    /\ gate.pc = "returned"
    /\ gate.result = <<[text |-> <<"Y", "E", "S">>, confirmed |-> TRUE]>>

\* The outcome of a gate invocation that is over.
GateOutcomes(g) ==
    {o \in {"terminate", "confirmed", "rejected"} :
        \/ o = "terminate" /\ g.pc = "exited"
        \/ o = "confirmed" /\ g.pc = "returned" /\ g.result # <<>> /\ Head(g.result).confirmed
        \/ o = "rejected" /\ g.pc = "returned" /\ g.result # <<>> /\ ~Head(g.result).confirmed}

\* C25: each gate invocation reads exactly one line and makes exactly one
\* transition from awaiting-input to exactly one of terminate, confirmed or
\* rejected; every input is accepted, and the gate never prompts again.
C25_OneReadOneTransition ==
    /\ [](/\ gate.reads = (IF gate.pc \in {"returned", "exited"} THEN 1 ELSE 0)
          /\ gate.pc \in {"returned", "exited"} => Cardinality(GateOutcomes(gate)) = 1
          /\ gate.pc \in {"idle", "input"} => GateOutcomes(gate) = {}
          /\ gate.pc = "input" => \A s \in Inputs : ENABLED AskReviewInput(s))
    /\ [][/\ gate.pc = "input" =>
               gate'.pc \in {"returned", "exited"} /\ gate'.reads = gate.reads + 1
          /\ gate'.pc = "input" => gate.pc = "idle" /\ gate'.reads = 0]_vars

\* The gate has read the empty line once and returned it as rejected.
C25_Witness ==
    /\ gate.pc = "returned" /\ gate.reads = 1
    /\ gate.rsp = <<>> /\ GateOutcomes(gate) = {"rejected"}

\* The Message objects that exist.
Live == {h \in Handles : objects[h] # NoObject}

\* A step that binds h to a Message that did not exist before.
Constructed(h) == objects[h] = NoObject /\ objects'[h] # NoObject

\* C26: Message.send_to is never empty.  It is the broadcast wildcard set
\* when not given, or given empty, at construction, and it is non-empty in
\* every state reached by construction followed by assignments to the
\* routing fields of the Message.
C26_SendToNeverEmpty ==
    /\ [][\A h \in Handles :
            Constructed(h) =>
               \A id \in IdInputs, cause_by \in CauseByInputs,
                  sent_from \in SentFromInputs, send_to \in SendToInputs :
                  (MessageNew(h, id, cause_by, sent_from, send_to) /\ ~Truthy(send_to)) =>
                     Head(objects'[h]).send_to = {MESSAGE_ROUTE_TO_ALL}]_vars
    /\ [](\A h \in Live : Head(objects[h]).send_to # {})

\* C27 as stated: every constructed Message has a non-empty id, and once a
\* Message exists no operation on it (field assignment, dump, load) changes
\* its id.
C27_IdNeverChanges ==
    /\ [][\A h \in Handles : Constructed(h) => Head(objects'[h]).id # 0]_vars
    /\ [][\A h \in Live : objects'[h] # NoObject =>
             Head(objects'[h]).id = Head(objects[h]).id]_vars

\* C27 (amended): every constructed Message has a non-empty id (generated
\* when absent, kept when supplied, distinct from the id of every Message
\* that exists when it is generated), and once a Message exists no operation
\* on it other than an assignment to its id field (assignment to another
\* field, dump, load) changes its id; the Message loaded from a dump has the
\* id that was dumped.
C27_IdChangesOnlyByAssignment ==
    /\ [][\A h \in Handles :
            Constructed(h) =>
               /\ Head(objects'[h]).id # 0
               /\ \A id \in IdInputs, cause_by \in CauseByInputs,
                     sent_from \in SentFromInputs, send_to \in SendToInputs :
                     MessageNew(h, id, cause_by, sent_from, send_to) =>
                        IF id # 0 THEN Head(objects'[h]).id = id
                        ELSE \A g \in Live : Head(objects'[h]).id # Head(objects[g]).id
               /\ (MessageLoad(h) /\ wire.id # 0) => Head(objects'[h]).id = wire.id]_vars
    /\ [][\A h \in Live :
            /\ objects'[h] # NoObject
            /\ Head(objects'[h]).id # Head(objects[h]).id =>
                   \E val \in IdInputs : MessageSetAttr(h, "id", val)
            /\ (wire' # wire /\ wire'.kind = "json" /\ MessageDump(h)) =>
                   wire'.id = Head(objects[h]).id]_vars

\* y was loaded from a dump of x: both have the id generated for x, which
\* is also the id of the text, while x has been given another recipient set.
C27_Witness ==
    /\ Live = Handles
    /\ Head(objects["y"]).id = Head(objects["x"]).id
    /\ Head(objects["x"]).id \notin {0, SuppliedId}
    /\ wire.kind = "json" /\ wire.id = Head(objects["x"]).id
    /\ Head(objects["x"]).send_to # Head(objects["y"]).send_to

\* C31: a role never receives its own output as news.  A Message produced
\* by the role's act() is in the role's private memory whenever it is in the
\* Environment, and no observe() of the role counts it as news, also when the
\* role watches the action that produced it.
C31_NoOwnOutputAsNews ==
    /\ [](\A r \in RoleIds : \A m \in Range(envMemory) :
             OwnMessage(r, m) => m \in Range(rcMemory[r]))
    /\ [][\A r \in RoleIds :
            (RunObserve(r) /\ rcEnv[r]) =>
               \A m \in Range(rcNews'[r]) : ~OwnMessage(r, m)]_vars

\* Role B has published the output of ActB2, which it watches, and has
\* observed again since: its news is not empty and does not hold that output.
C31_Witness ==
    /\ pc["B"] = "think" /\ rcNews["B"] # <<>>
    /\ \E m \in Range(envMemory) :
          /\ OwnMessage("B", m) /\ m.cause_by \in RoleWatch("B")
          /\ m \notin Range(rcNews["B"])

\* The roles Environment.run drives.
Registered == {envRoles[i].role : i \in 1..Len(envRoles)}

\* No role is inside run().
AllIdle == \A r \in RoleIds : pc[r] = "idle"

\* A round of Environment.run is over in which the run() of every registered
\* role found zero news, the last of them just now, and during which nothing
\* they watch was published from outside: run() leaves the news it found in
\* _rc.news, and an Action that raises ends Environment.run.
QuietRoundDone ==
    /\ envRun.active /\ envRun.idx > Len(envRoles) /\ AllIdle
    /\ Registered # {}
    /\ ret = Returned(envRoles[Len(envRoles)].role, "None", <<>>)
    /\ \A r \in Registered : Unseen(r) = {}
    /\ \A r \in Registered : rcNews[r] = <<>>

\* No role is inside run() and no registered role has a watched message of
\* the global memory left to see.
QuiescentState ==
    /\ AllIdle
    /\ \A r \in Registered : Unseen(r) = {}

\* C32 as stated: once a round has found zero news for every registered
\* role, then as long as nothing is published from outside (no Message is
\* constructed: nextId stays) no role thinks, acts or publishes, and the
\* global memory does not change.
C32_QuiescenceStable ==
    /\ \A n \in 1..(MaxMsgs + 1) :
          []((QuietRoundDone /\ nextId = n) => [](nextId = n => AllIdle))
    /\ [][envMemory' # envMemory =>
             (nextId' # nextId \/ \E r \in RoleIds : pc[r] = "publish")]_vars

\* C32 (amended): a round in which every registered role's run() finds zero
\* news leaves a state that stays as it is while nothing is published from
\* outside (nextId stays) and no role is added (Environment.roles stays): no
\* role thinks, acts or publishes, and the global memory does not change.
C32_QuiescenceStableFixedRoles ==
    /\ [](QuietRoundDone => QuiescentState)
    /\ [][\A r \in RoleIds :
            (EnvRunTurn /\ ret' = Returned(r, "None", <<>>)) => Unseen(r)' = {}]_vars
    /\ [][(QuiescentState /\ nextId' = nextId /\ envRoles' = envRoles) =>
            (QuiescentState' /\ envMemory' = envMemory)]_vars

\* A second Environment.run is under way after a round in which roles A and
\* B both found zero news, and its first run() has found zero news again.
C32_Witness ==
    /\ envRun.active /\ envRun.idx = 2 /\ Len(envRoles) = 2
    /\ ret = Returned(envRoles[1].role, "None", <<>>)
    /\ \A r \in Registered : Unseen(r) = {} /\ rcNews[r] = <<>>
    /\ \E r \in Registered : \E m \in Range(envMemory) : OwnMessage(r, m)

\* C33: Message serialization round trip: for every Message m without
\* structured content, Message.load(m.dump()) yields a Message with the same
\* id, content, role, cause_by, sent_from and send_to as m.
SameFields(a, b) ==
    /\ a.id = b.id /\ a.content = b.content /\ a.role = b.role
    /\ a.cause_by = b.cause_by /\ a.sent_from = b.sent_from /\ a.send_to = b.send_to
RoundTrips(m) ==
    \A val \in Dump(m) :
        /\ Load(val, nextId) # <<>>
        /\ SameFields(Head(Load(val, nextId)), m)
C33_DumpLoadRoundTrip ==
    \A h \in Live : Head(objects[h]).instruct_content = "" => RoundTrips(Head(objects[h]))

\* A Message whose id and send_to are not empty comes back from load(dump())
\* with the same fields.
RoundTripOfRoutedMessages ==
    \A h \in Live :
        (Head(objects[h]).id # 0 /\ Head(objects[h]).send_to # {}) => RoundTrips(Head(objects[h]))

\* The Messages pushed and not yet returned by pop or pop_all, oldest first.
NotPopped(m) == m \notin Range(mq.popped)
Pending == SelectSeq(mq.pushed, NotPopped)

\* C34: MessageQueue is FIFO and non-blocking: pop() returns the oldest
\* message still in the queue, or None at once when the queue is empty;
\* pop_all() returns every message in the queue in push order and leaves the
\* queue empty; no pushed message is ever returned twice.
C34_QueueFifo ==
    /\ [][QueuePop =>
            mq'.ret.msgs = IF Pending = <<>> THEN <<>> ELSE <<Head(Pending)>>]_vars
    /\ [][QueuePopAll => (mq'.ret.msgs = Pending /\ mq'.queue = <<>>)]_vars
    /\ [](\A i, j \in 1..Len(mq.popped) : mq.popped[i] = mq.popped[j] => i = j)
    /\ [](NoDumpRunning => mq.queue = Pending)

\* C34 witness: after an earlier pop, pop_all has returned two messages.
C34_Witness ==
    /\ mq.ret.op = "pop_all" /\ Len(mq.ret.msgs) = 2
    /\ Len(mq.popped) = 3 /\ mq.queue = <<>>

\* dump() returns in the step: at once on an empty queue, or at the timeout.
DumpReturns == (QueueDumpStart /\ mq.queue = <<>>) \/ QueueDumpTimeout

\* dump() leaves the queue as it was and returns "[]" on an empty queue.
DumpKeepsQueue ==
    /\ [][DumpReturns => (mq'.queue = Pending /\ Pending' = Pending)]_vars
    /\ [][(DumpReturns /\ Pending = <<>>) => mq'.ret.text = JsonArray(<<>>)]_vars

\* C35: MessageQueue.dump() is non-destructive: with no concurrent operation,
\* after dump() returns the queue holds exactly the messages it held before
\* the call, in the same order, and MessageQueue.load(result) holds equal
\* messages in that order; on an empty queue dump() returns "[]".
C35_DumpNonDestructive ==
    /\ [](NoDumpRunning => mq.queue = Pending)
    /\ [][DumpReturns => (mq'.queue = Pending /\ Pending' = Pending)]_vars
    /\ [][DumpReturns => QueueLoad(mq'.ret.text, nextId) = Pending]_vars
    /\ [][(DumpReturns /\ Pending = <<>>) => mq'.ret.text = JsonArray(<<>>)]_vars

\* Every pushed Message is in exactly one place: returned by a pop, in the
\* queue, or held by the dump() in progress.
NothingLostOrDuplicated ==
    /\ Range(mq.popped) \cup Range(mq.queue) \cup Range(mq.msgs) = Range(mq.pushed)
    /\ Len(mq.popped) + Len(mq.queue) + Len(mq.msgs) = Len(mq.pushed)

\* C36: MessageQueue supports asynchronous updates during dump(): in every
\* interleaving of an in-progress dump() with push(), pop() and empty() calls
\* from other tasks, no message is lost or duplicated, and a message that has
\* been pushed and not yet popped is never reported absent (pop() returning
\* None or empty() returning true).
C36_AsyncUpdatesDuringDump ==
    /\ [](NothingLostOrDuplicated)
    /\ [](NoDumpRunning => Range(mq.queue) = Range(Pending))
    /\ [][(QueuePop /\ mq'.ret.msgs = <<>>) => Pending = <<>>]_vars
    /\ [][(QueueEmpty /\ mq'.ret.flag) => Pending = <<>>]_vars

\* Messages are neither lost nor duplicated by a dump() other tasks
\* interleave with.
DumpLosesNothing ==
    /\ [](NothingLostOrDuplicated)
    /\ [](NoDumpRunning => Range(mq.queue) = Range(Pending))

\* The call of run has ended: it returned the code or raised.
ToolsEnded == mt.pc \in {"returned", "raised"}

\* C37 as amended: a call to MakeTools.run issues at most max_tries = 3 model
\* requests in each attempt of its retry decorator, which makes at most 3
\* attempts; it stops at the first response whose code contains a function
\* definition, and always terminates.
C37_BoundedRetryPerAttempt ==
    /\ [](mt.requests <= max_tries * mt.attempt)
    /\ [](mt.attempt <= stop_after_attempt)
    /\ [][(mt'.requests # mt.requests /\ mt'.func_name # <<>>) =>
            (mt'.pc = "save" /\ parse_function_name(mt'.tool_code) = mt'.func_name)]_vars
    /\ [][(mt.pc = "save" /\ parse_function_name(mt.tool_code) # <<>>) =>
            (mt'.pc = "returned" /\ mt'.requests = mt.requests)]_vars
    /\ (mt.pc # "idle") ~> ToolsEnded

\* C37 witness: a call that took more than max_tries requests has returned
\* the code of a function it saved.
C37_Witness ==
    /\ mt.pc = "returned" /\ mt.requests > max_tries
    /\ mt.files # {}

\* C37: MakeTools.run bounded retry: a call to MakeTools.run issues at most
\* max_tries = 3 model requests, stops at the first response whose code
\* contains a function definition, and always terminates.
C37_BoundedRetry ==
    /\ [](mt.requests <= max_tries)
    /\ [][(mt'.requests # mt.requests /\ mt'.func_name # <<>>) =>
            (mt'.pc = "save" /\ parse_function_name(mt'.tool_code) = mt'.func_name)]_vars
    /\ [][(mt.pc = "save" /\ parse_function_name(mt.tool_code) # <<>>) =>
            (mt'.pc = "returned" /\ mt'.requests = mt.requests)]_vars
    /\ (mt.pc # "idle") ~> ToolsEnded

\* C38: MakeTools.run exhaustion: when the maximum number of attempts is
\* reached without any response containing a function definition, tool
\* creation is skipped: no tool file is saved and the call does not fail with
\* an error.
C38_ExhaustionSkips ==
    [][(mt.pc = "save" /\ mt.current_try >= max_tries
            /\ parse_function_name(mt.tool_code) = <<>>) =>
          (mt'.pc = "returned" /\ mt'.files = mt.files)]_vars

====
